---------------------------- MODULE Spec2Model ----------------------------
(***************************************************************************)
(* Gateway clients of the seren-skills trading agents:                     *)
(*   curve/curve-gauge-yield-trader/scripts/agent.py   (Curve agent)       *)
(*   coinbase/grid-trader/scripts/seren_client.py      (Coinbase client)   *)
(*   polymarket/bot/scripts/polymarket_client.py       (Polymarket client) *)
(* Each program is a state machine of its own; a specification below       *)
(* runs one of them (or a union of them) and keeps the others switched     *)
(* off.  Text is modelled as a sequence of one-character strings so that   *)
(* tokenizing, prefix tests, substring tests and ordering are computed.    *)
(***************************************************************************)
EXTENDS Integers, Sequences, FiniteSets, TLC

VARIABLES
    dcCatalog,   \* _discovered_rpc_publishers: the publishers list_publishers returned
    dcResult,    \* _discovered_rpc_publishers: [done, discovered], the dict once computed
    rsPc,        \* _rpc_publisher_for_chain: "off" | "start" | "fetch" | "done"
    rsIn,        \* its arguments: [chain, rpc_publishers]
    rsCatalog,   \* what client.list_publishers() gave: "none", an error or a list
    rsRequests,  \* the gateway requests it issued, in order
    rsOut,       \* its outcome: "none", a returned pair or a raised error
    runPc,       \* run_once: the step it is at, "off" when no run is modelled
    runIn,       \* run_once: yes_live, ledger_address and the SEREN_API_KEY of the environment
    runCfg,      \* the config values read so far that decide the mode (as written in the file)
    runLoc,      \* run_once: its local variables
    runRequests, \* the publisher calls of the run, in order
    runResult,   \* what run_once returned or raised
    cbPc,        \* Coinbase SerenClient: "off" | "new" | "ready" | "failed"
    cbArgs,      \* the arguments of its constructor
    cbSelf,      \* the client object's attributes, once constructed
    cbLast,      \* its last operation: the request sent and how _call ended
    pmPc,        \* PolymarketClient: "off" | "new" | "ready" | "calling" | "failed"
    pmArgs,      \* the arguments of its constructor and the environment it reads
    pmSelf,      \* the client object's attributes, once constructed
    pmCall,      \* the operation in progress: the locals of _call_trading
    pmRequests,  \* the requests of the current (or last) operation, in order
    pmOut,       \* how the last operation ended
    lpPc,        \* list_publishers: "off" | "loop" | "done"
    lpArgs,      \* its arguments: [limit, max_pages]
    lpLoc,       \* its local variables: [publishers, offset, turns]
    lpRequests,  \* the catalog requests it sent and what came back, in order
    lpOut,       \* what it returned or raised
    sgIn,        \* _sign: two sets of arguments, [a, b]
    sgOut,       \* _sign: what it returned for each of them
    mainPc,      \* main of the Curve agent: "off" | "args" | "run_once" | "exited"
    mainOut,     \* what main printed on stdout and the exit code of the process
    xtIn,        \* extract_text: the response it is applied to
    xtOut        \* extract_text: what it returned or raised, bare and in a body envelope

dcVars == <<dcCatalog, dcResult>>
rsVars == <<rsPc, rsIn, rsCatalog, rsRequests, rsOut>>
runVars == <<runPc, runIn, runCfg, runLoc, runRequests, runResult>>
cbVars == <<cbPc, cbArgs, cbSelf, cbLast>>
pmVars == <<pmPc, pmArgs, pmSelf, pmCall, pmRequests, pmOut>>
clVars == <<cbVars, pmVars>>
lpVars == <<lpPc, lpArgs, lpLoc, lpRequests, lpOut>>
sgVars == <<sgIn, sgOut>>
mainVars == <<mainPc, mainOut>>
xtVars == <<xtIn, xtOut>>
vars == <<dcVars, rsVars, runVars, clVars, lpVars, sgVars, mainVars, xtVars>>

----------------------------------------------------------------------------
(* Text.                                                                   *)

\* The characters in use, in code-point order (str comparison, line 403).
Ascii == <<" ", "-", ".", "/", "0", "1", "2", "3", "4", "5", "6", "7", "8", "9", ":",
           "A", "B", "C", "D", "E", "F", "G", "H", "I", "J", "K", "L", "M",
           "N", "O", "P", "Q", "R", "S", "T", "U", "V", "W", "X", "Y", "Z", "_",
           "a", "b", "c", "d", "e", "f", "g", "h", "i", "j", "k", "l", "m",
           "n", "o", "p", "q", "r", "s", "t", "u", "v", "w", "x", "y", "z">>

Uppers == <<"A", "B", "C", "D", "E", "F", "G", "H", "I", "J", "K", "L", "M",
            "N", "O", "P", "Q", "R", "S", "T", "U", "V", "W", "X", "Y", "Z">>

Lowers == <<"a", "b", "c", "d", "e", "f", "g", "h", "i", "j", "k", "l", "m",
            "n", "o", "p", "q", "r", "s", "t", "u", "v", "w", "x", "y", "z">>

Digits == {"0", "1", "2", "3", "4", "5", "6", "7", "8", "9"}

\* The class [a-z0-9] of the regular expression of _tokenize.
AlnumLower == {Lowers[i] : i \in 1..Len(Lowers)} \cup Digits

\* Position of each character in code-point order.
OrdOf == [c \in {Ascii[i] : i \in 1..Len(Ascii)} |-> CHOOSE i \in 1..Len(Ascii) : Ascii[i] = c]

ord(c) == OrdOf[c]

LowerOf ==
    [c \in {Ascii[i] : i \in 1..Len(Ascii)} |->
        IF \E i \in 1..Len(Uppers) : Uppers[i] = c
        THEN Lowers[CHOOSE i \in 1..Len(Uppers) : Uppers[i] = c]
        ELSE c]

lower_char(c) == LowerOf[c]

\* str.lower()
lower(s) == [i \in 1..Len(s) |-> lower_char(s[i])]

\* str.startswith(prefix)
startswith(s, prefix) ==
    /\ Len(prefix) <= Len(s)
    /\ SubSeq(s, 1, Len(prefix)) = prefix

\* sub in s
contains(s, sub) ==
    \E i \in 1..(Len(s) - Len(sub) + 1) : SubSeq(s, i, i + Len(sub) - 1) = sub

RECURSIVE lstrip(_)
lstrip(s) ==
    IF s # <<>> /\ Head(s) = " " THEN lstrip(Tail(s)) ELSE s

RECURSIVE rstrip(_)
rstrip(s) ==
    IF s # <<>> /\ s[Len(s)] = " " THEN rstrip(SubSeq(s, 1, Len(s) - 1)) ELSE s

\* str.strip()
strip(s) == rstrip(lstrip(s))

\* a < b on str: the first differing character decides, a proper prefix is smaller.
RECURSIVE str_less(_, _)
str_less(a, b) ==
    IF b = <<>> THEN FALSE
    ELSE IF a = <<>> THEN TRUE
    ELSE IF Head(a) # Head(b) THEN ord(Head(a)) < ord(Head(b))
    ELSE str_less(Tail(a), Tail(b))

\* sep.join(parts)
RECURSIVE join(_, _)
join(sep, parts) ==
    IF parts = <<>> THEN <<>>
    ELSE IF Len(parts) = 1 THEN parts[1]
    ELSE parts[1] \o sep \o join(sep, Tail(parts))

\* re.split(r"[^a-z0-9]+", s) with the empty pieces dropped, as a set: the
\* maximal runs of [a-z0-9] in s, read from position i on, from being the start
\* of the run that is open (0 when none is).
RECURSIVE split_alnum(_, _, _, _)
split_alnum(s, i, from, acc) ==
    IF i > Len(s)
    THEN (IF from = 0 THEN acc ELSE acc \cup {SubSeq(s, from, Len(s))})
    ELSE IF s[i] \in AlnumLower
         THEN split_alnum(s, i + 1, IF from = 0 THEN i ELSE from, acc)
         ELSE split_alnum(s, i + 1, 0,
                          IF from = 0 THEN acc ELSE acc \cup {SubSeq(s, from, i - 1)})

_tokenize(value) == split_alnum(lower(value), 1, 0, {})

s_ethereum == <<"e", "t", "h", "e", "r", "e", "u", "m">>
s_arbitrum == <<"a", "r", "b", "i", "t", "r", "u", "m">>
s_base == <<"b", "a", "s", "e">>
s_optimism == <<"o", "p", "t", "i", "m", "i", "s", "m">>
s_polygon == <<"p", "o", "l", "y", "g", "o", "n">>
s_matic == <<"m", "a", "t", "i", "c">>
s_avalanche == <<"a", "v", "a", "l", "a", "n", "c", "h", "e">>
s_avax == <<"a", "v", "a", "x">>
s_bsc == <<"b", "s", "c">>
s_binance == <<"b", "i", "n", "a", "n", "c", "e">>
s_bnb == <<"b", "n", "b">>
s_gnosis == <<"g", "n", "o", "s", "i", "s">>
s_xdai == <<"x", "d", "a", "i">>
s_zksync == <<"z", "k", "s", "y", "n", "c">>
s_scroll == <<"s", "c", "r", "o", "l", "l">>
s_rpc == <<"r", "p", "c">>
s_json_rpc == <<"j", "s", "o", "n", "-", "r", "p", "c">>
s_json_rpc_sp == <<"j", "s", "o", "n", " ", "r", "p", "c">>
s_seren_dash == <<"s", "e", "r", "e", "n", "-">>

SUPPORTED_CHAINS ==
    {s_ethereum, s_arbitrum, s_base, s_optimism, s_polygon,
     s_avalanche, s_bsc, s_gnosis, s_zksync, s_scroll}

CHAIN_DISCOVERY_TERMS ==
    [chain \in SUPPORTED_CHAINS |->
        CASE chain = s_polygon -> <<s_polygon, s_matic>>
          [] chain = s_avalanche -> <<s_avalanche, s_avax>>
          [] chain = s_bsc -> <<s_bsc, s_binance, s_bnb>>
          [] chain = s_gnosis -> <<s_gnosis, s_xdai>>
          [] OTHER -> <<chain>>]

----------------------------------------------------------------------------
(* Catalog discovery (agent.py, _discovered_rpc_publishers).               *)
(* A catalog entry is [slug, name, description, categories, is_active]:    *)
(* the three texts are "" when the key is missing, categories is the list  *)
(* of its string items, is_active is "True", "False" or "None" (missing).  *)

\* " ".join(str(category).lower() for category in categories ...)
categories_text(publisher) ==
    join(<<" ">>, [i \in 1..Len(publisher.categories) |-> lower(publisher.categories[i])])

\* any(term in tokens for term in terms)
any_term_in(terms, tokens) == \E k \in 1..Len(terms) : terms[k] \in tokens

_is_rpc_like_publisher(publisher) ==
    LET slug == lower(publisher.slug)
        name == lower(publisher.name)
        description == lower(publisher.description)
        category_tokens == _tokenize(categories_text(publisher))
        slug_tokens == _tokenize(slug)
        name_tokens == _tokenize(name)
    IN  IF s_rpc \in category_tokens \/ s_rpc \in slug_tokens \/ s_rpc \in name_tokens
        THEN TRUE
        ELSE contains(description, s_json_rpc) \/ contains(description, s_json_rpc_sp)

\* The body of the inner loop for one publisher: whether it is skipped
\* (a continue), and otherwise its slug and score.
publisher_candidate(publisher, terms) ==
    LET slug == lower(strip(publisher.slug))
        name == lower(publisher.name)
        description == lower(publisher.description)
        slug_tokens == _tokenize(slug)
        name_tokens == _tokenize(name)
        category_tokens == _tokenize(categories_text(publisher))
        description_tokens == _tokenize(description)
        all_tokens == slug_tokens \cup name_tokens \cup category_tokens \cup description_tokens
        score == (IF startswith(slug, s_seren_dash) THEN 20 ELSE 0)
                 + (IF any_term_in(terms, slug_tokens) THEN 12 ELSE 0)
                 + (IF any_term_in(terms, category_tokens) THEN 8 ELSE 0)
                 + (IF any_term_in(terms, name_tokens) THEN 6 ELSE 0)
                 + (IF contains(description, s_json_rpc) THEN 4 ELSE 0)
    IN  IF publisher.is_active = "False" THEN [skip |-> TRUE]
        ELSE IF ~_is_rpc_like_publisher(publisher) THEN [skip |-> TRUE]
        ELSE IF slug = <<>> THEN [skip |-> TRUE]
        ELSE IF ~any_term_in(terms, all_tokens) THEN [skip |-> TRUE]
        ELSE [skip |-> FALSE, slug |-> slug, score |-> score]

\* A mutant of replaces_best: the tie on score is not broken by the slug.
replaces_best_no_tiebreak(score, slug, best_score, best_slug) ==
    score > best_score

\* score > best_score or (score == best_score and slug < best_slug)
replaces_best(score, slug, best_score, best_slug) ==
    score > best_score \/ (score = best_score /\ str_less(slug, best_slug))

\* for publisher in publishers: ... (from index i on)
RECURSIVE scan_publishers(_, _, _, _, _)
scan_publishers(publishers, i, terms, best_score, best_slug) ==
    IF i > Len(publishers) THEN best_slug
    ELSE LET c == publisher_candidate(publishers[i], terms)
         IN  IF c.skip
             THEN scan_publishers(publishers, i + 1, terms, best_score, best_slug)
             ELSE IF replaces_best(c.score, c.slug, best_score, best_slug)
             THEN scan_publishers(publishers, i + 1, terms, c.score, c.slug)
             ELSE scan_publishers(publishers, i + 1, terms, best_score, best_slug)

\* The dict discovered: chain -> best_slug, for the chains with a best_slug.
_discovered_rpc_publishers(publishers) ==
    LET best == [chain \in DOMAIN CHAIN_DISCOVERY_TERMS |->
                    scan_publishers(publishers, 1, CHAIN_DISCOVERY_TERMS[chain], -1, <<>>)]
    IN  [chain \in {c \in DOMAIN CHAIN_DISCOVERY_TERMS : best[c] # <<>>} |-> best[chain]]

\* Texts of the catalog entries and overrides the specifications draw from.
s_solana == <<"s", "o", "l", "a", "n", "a">>
t_seren_base_rpc == <<"s", "e", "r", "e", "n", "-", "b", "a", "s", "e", "-", "r", "p", "c">>
t_Base == <<"B", "a", "s", "e">>
t_base_rpc == <<"b", "a", "s", "e", "-", "r", "p", "c">>
t_rpc_base == <<"r", "p", "c", "-", "b", "a", "s", "e">>
t_Alpha_Node == <<"A", "l", "p", "h", "a", "-", "N", "o", "d", "e">>
t_alpha_desc == <<"J", "S", "O", "N", "-", "R", "P", "C", " ", "f", "o", "r", " ", "B", "a", "s", "e", " ", "a", "n", "d", " ", "M", "a", "t", "i", "c">>
t_database == <<"d", "a", "t", "a", "b", "a", "s", "e">>
t_seren_base == <<"s", "e", "r", "e", "n", "-", "b", "a", "s", "e">>
t_Base_RPC == <<"B", "a", "s", "e", " ", "R", "P", "C">>
t_blank == <<" ", " ">>
t_Seren_Matic == <<" ", "S", "e", "r", "e", "n", "-", "M", "a", "t", "i", "c", " ">>
t_Polygon_RPC == <<"P", "o", "l", "y", "g", "o", "n", " ", "R", "P", "C">>
t_base_rpcs == <<"b", "a", "s", "e", "-", "r", "p", "c", "s">>
t_data == <<"d", "a", "t", "a">>
t_my_base_rpc == <<"m", "y", "-", "b", "a", "s", "e", "-", "r", "p", "c">>
t_padded == <<" ", "m", "y", "-", "b", "a", "s", "e", "-", "r", "p", "c", " ">>

Entry(slug, name, description, categories, is_active) ==
    [slug |-> slug, name |-> name, description |-> description,
     categories |-> categories, is_active |-> is_active]

P_seren_base_rpc == Entry(t_seren_base_rpc, t_Base, <<>>, <<>>, "None")
P_base_rpc == Entry(t_base_rpc, <<>>, <<>>, <<t_Base>>, "True")
P_rpc_base == Entry(t_rpc_base, <<>>, <<>>, <<s_base>>, "True")
P_alpha == Entry(t_Alpha_Node, t_Base, t_alpha_desc, <<>>, "True")
P_inactive == Entry(t_seren_base, t_Base_RPC, <<>>, <<>>, "False")
P_blank == Entry(t_blank, t_Base_RPC, <<>>, <<>>, "True")
P_matic == Entry(t_Seren_Matic, t_Polygon_RPC, t_database, <<s_rpc, s_polygon>>, "None")
P_data == Entry(t_base_rpcs, t_Base, <<>>, <<t_data>>, "True")

CatalogEntries ==
    {P_seren_base_rpc, P_base_rpc, P_rpc_base, P_alpha,
     P_inactive, P_blank, P_matic, P_data}

\* Longest catalog drawn for _discovered_rpc_publishers.
MaxCatalog == 3

Catalogs == UNION {[1..n -> CatalogEntries] : n \in 0..MaxCatalog}

DiscoverOff ==
    /\ dcCatalog = <<>>
    /\ dcResult = [done |-> FALSE]

ResolveOff ==
    /\ rsPc = "off"
    /\ rsIn = [kind |-> "none"]
    /\ rsCatalog = [kind |-> "none"]
    /\ rsRequests = <<>>
    /\ rsOut = [kind |-> "none"]

RunOff ==
    /\ runPc = "off"
    /\ runIn = [kind |-> "none"]
    /\ runCfg = [kind |-> "none"]
    /\ runLoc = [kind |-> "none"]
    /\ runRequests = <<>>
    /\ runResult = [kind |-> "none"]

CoinbaseOff ==
    /\ cbPc = "off"
    /\ cbArgs = [kind |-> "none"]
    /\ cbSelf = [kind |-> "none"]
    /\ cbLast = [kind |-> "none"]

PolymarketOff ==
    /\ pmPc = "off"
    /\ pmArgs = [kind |-> "none"]
    /\ pmSelf = [kind |-> "none"]
    /\ pmCall = [kind |-> "none"]
    /\ pmRequests = <<>>
    /\ pmOut = [kind |-> "none"]

ClientsOff == CoinbaseOff /\ PolymarketOff

ListOff ==
    /\ lpPc = "off"
    /\ lpArgs = [kind |-> "none"]
    /\ lpLoc = [kind |-> "none"]
    /\ lpRequests = <<>>
    /\ lpOut = [kind |-> "none"]

SignOff ==
    /\ sgIn = [kind |-> "none"]
    /\ sgOut = [kind |-> "none"]

MainOff ==
    /\ mainPc = "off"
    /\ mainOut = [kind |-> "none"]

ExtractOff ==
    /\ xtIn = [kind |-> "none"]
    /\ xtOut = [kind |-> "none"]

InitDiscover ==
    /\ dcCatalog \in Catalogs
    /\ dcResult = [done |-> FALSE]
    /\ ResolveOff
    /\ RunOff
    /\ ClientsOff
    /\ ListOff
    /\ SignOff
    /\ MainOff
    /\ ExtractOff

\* discovered = _discovered_rpc_publishers(client), on the listed publishers.
Discover ==
    /\ ~dcResult.done
    /\ dcResult' = [done |-> TRUE, discovered |-> _discovered_rpc_publishers(dcCatalog)]
    /\ UNCHANGED <<dcCatalog, rsVars, runVars, clVars, lpVars, sgVars, mainVars, xtVars>>

NextDiscover == Discover

\* The catalog in another order: entry i of the result is entry perm[i].
Reordered(catalog, perm) == [i \in 1..Len(catalog) |-> catalog[perm[i]]]

\* Exchanging the first two entries, and moving the first entry to the end:
\* every order of n entries is reached from any other by repeating these two.
Reorderings(n) ==
    IF n < 2 THEN {}
    ELSE {[i \in 1..n |-> IF i = 1 THEN 2 ELSE IF i = 2 THEN 1 ELSE i],
          [i \in 1..n |-> IF i = n THEN 1 ELSE i + 1]}

\* The slug a catalog entry is known by: stripped and lower-cased.
ClaimSlug(p) == lower(strip(p.slug))

ClaimTokens(p) ==
    _tokenize(p.slug) \cup _tokenize(p.name) \cup _tokenize(p.description)
        \cup UNION {_tokenize(p.categories[k]) : k \in 1..Len(p.categories)}

ClaimCategoryTokens(p) == UNION {_tokenize(p.categories[k]) : k \in 1..Len(p.categories)}

ClaimEligible(p, chain) ==
    /\ p.is_active # "False"
    /\ _is_rpc_like_publisher(p)
    /\ ClaimSlug(p) # <<>>
    /\ \E k \in 1..Len(CHAIN_DISCOVERY_TERMS[chain]) :
            CHAIN_DISCOVERY_TERMS[chain][k] \in ClaimTokens(p)

ClaimScore(p, chain) ==
    LET terms == {CHAIN_DISCOVERY_TERMS[chain][k] : k \in 1..Len(CHAIN_DISCOVERY_TERMS[chain])}
    IN  (IF startswith(ClaimSlug(p), s_seren_dash) THEN 20 ELSE 0)
        + (IF terms \cap _tokenize(p.slug) # {} THEN 12 ELSE 0)
        + (IF terms \cap ClaimCategoryTokens(p) # {} THEN 8 ELSE 0)
        + (IF terms \cap _tokenize(p.name) # {} THEN 6 ELSE 0)
        + (IF contains(lower(p.description), s_json_rpc) THEN 4 ELSE 0)

\* C10: for every chain, catalog discovery maps the chain to the eligible entry
\* with the highest score, a tie going to the smallest slug; a chain with no
\* eligible entry gets no mapping; and listing the same entries in another order
\* discovers the same mapping (checked for the two reorderings that generate
\* every order, on every catalog).
C10_HighestScoreSmallestSlug ==
    dcResult.done =>
        /\ \A chain \in SUPPORTED_CHAINS :
              LET E == {i \in 1..Len(dcCatalog) : ClaimEligible(dcCatalog[i], chain)}
              IN  IF E = {}
                  THEN chain \notin DOMAIN dcResult.discovered
                  ELSE /\ chain \in DOMAIN dcResult.discovered
                       /\ \E i \in E :
                            /\ dcResult.discovered[chain] = ClaimSlug(dcCatalog[i])
                            /\ \A j \in E :
                                 \/ ClaimScore(dcCatalog[j], chain) < ClaimScore(dcCatalog[i], chain)
                                 \/ /\ ClaimScore(dcCatalog[j], chain) = ClaimScore(dcCatalog[i], chain)
                                    /\ ~str_less(ClaimSlug(dcCatalog[j]), ClaimSlug(dcCatalog[i]))
        /\ \A perm \in Reorderings(Len(dcCatalog)) :
              _discovered_rpc_publishers(Reordered(dcCatalog, perm)) = dcResult.discovered

\* C10 witness: two eligible entries tie on score for base, the one listed later
\* has the smaller slug and is the one discovered, while a third entry scores less.
C10_Witness ==
    /\ dcResult.done
    /\ Len(dcCatalog) = 3
    /\ \E i, j, k \in 1..3 :
         /\ i < j
         /\ ClaimEligible(dcCatalog[i], s_base)
         /\ ClaimEligible(dcCatalog[j], s_base)
         /\ ClaimEligible(dcCatalog[k], s_base)
         /\ ClaimScore(dcCatalog[i], s_base) = ClaimScore(dcCatalog[j], s_base)
         /\ ClaimScore(dcCatalog[k], s_base) < ClaimScore(dcCatalog[j], s_base)
         /\ str_less(ClaimSlug(dcCatalog[j]), ClaimSlug(dcCatalog[i]))
         /\ s_base \in DOMAIN dcResult.discovered
         /\ dcResult.discovered[s_base] = ClaimSlug(dcCatalog[j])

SpecDiscover == InitDiscover /\ [][NextDiscover]_vars

----------------------------------------------------------------------------
(* RPC publisher resolution (agent.py, _rpc_publisher_for_chain).          *)
(* config["rpc_publishers"] is [kind |-> "missing"], [kind |-> "null"],    *)
(* [kind |-> "other"] (any JSON value that is no object) or                *)
(* [kind |-> "dict", items |-> the (key, value) pairs in dict order]; a    *)
(* value is [t |-> "str", v |-> text] or [t |-> "other"].  The keys of a   *)
(* JSON object are strings.                                                *)

\* for chain, slug in overrides.items(): ... (from item i on)
RECURSIVE clean_overrides(_, _, _)
clean_overrides(items, i, cleaned) ==
    IF i > Len(items) THEN [kind |-> "ok", cleaned |-> cleaned]
    ELSE LET chain == items[i].key
             slug == items[i].value
         IN  IF chain \notin SUPPORTED_CHAINS
             THEN [kind |-> "ConfigError", error |-> "unsupported chain key", chain |-> chain]
             ELSE IF slug.t # "str" \/ strip(slug.v) = <<>>
             THEN [kind |-> "ConfigError", error |-> "must be a non-empty string", chain |-> chain]
             ELSE clean_overrides(items, i + 1,
                                  [c \in DOMAIN cleaned \cup {chain} |->
                                      IF c = chain THEN strip(slug.v) ELSE cleaned[c]])

_rpc_publisher_overrides(rpc_publishers) ==
    IF rpc_publishers.kind = "missing" THEN clean_overrides(<<>>, 1, <<>>)
    ELSE IF rpc_publishers.kind = "null" THEN [kind |-> "ok", cleaned |-> <<>>]
    ELSE IF rpc_publishers.kind # "dict"
    THEN [kind |-> "ConfigError", error |-> "rpc_publishers must be an object"]
    ELSE clean_overrides(rpc_publishers.items, 1, <<>>)

\* min(keys) on str
min_key(keys) == CHOOSE k \in keys : \A other \in keys : other = k \/ str_less(k, other)

\* sorted(discovered.items()): the (chain, slug) pairs by chain.
RECURSIVE sorted_items(_, _)
sorted_items(d, keys) ==
    IF keys = {} THEN <<>>
    ELSE <<<<min_key(keys), d[min_key(keys)]>>>> \o sorted_items(d, keys \ {min_key(keys)})

\* A mutant of resolve_discovered: the message lists only the first mapping.
resolve_discovered_first_only(chain, discovered) ==
    IF chain \in DOMAIN discovered
    THEN [kind |-> "return", publisher |-> discovered[chain], source |-> "catalog:/publishers"]
    ELSE [kind |-> "ConfigError", error |-> "No RPC publisher is available", chain |-> chain,
          available |-> IF DOMAIN discovered = {} THEN <<"none">>
                        ELSE SubSeq(sorted_items(discovered, DOMAIN discovered), 1, 1)]

\* publisher = discovered.get(chain) and what follows it.
resolve_discovered(chain, discovered) ==
    IF chain \in DOMAIN discovered
    THEN [kind |-> "return", publisher |-> discovered[chain], source |-> "catalog:/publishers"]
    ELSE [kind |-> "ConfigError", error |-> "No RPC publisher is available", chain |-> chain,
          available |-> IF DOMAIN discovered = {} THEN <<"none">>
                        ELSE sorted_items(discovered, DOMAIN discovered)]

\* A mutant of resolve_override: the catalog is consulted before the override.
resolve_override_ignored(chain, overrides) ==
    IF overrides.kind = "ConfigError" THEN overrides ELSE [kind |-> "fetch"]

\* overrides = _rpc_publisher_overrides(config); if chain in overrides: return ...
resolve_override(chain, overrides) ==
    IF overrides.kind = "ConfigError" THEN overrides
    ELSE IF chain \in DOMAIN overrides.cleaned
    THEN [kind |-> "return", publisher |-> overrides.cleaned[chain],
          source |-> "config.rpc_publishers"]
    ELSE [kind |-> "fetch"]

Str(v) == [t |-> "str", v |-> v]

Item(key, value) == [key |-> key, value |-> value]

\* The values of config["rpc_publishers"] the specifications draw from.
RpcPublisherConfigs ==
    {[kind |-> "missing"], [kind |-> "null"], [kind |-> "other"],
     [kind |-> "dict", items |-> <<>>],
     [kind |-> "dict", items |-> <<Item(s_base, Str(t_padded))>>],
     [kind |-> "dict", items |-> <<Item(s_polygon, Str(t_my_base_rpc)), Item(s_scroll, Str(t_rpc_base))>>],
     [kind |-> "dict", items |-> <<Item(s_base, Str(t_my_base_rpc)), Item(s_solana, Str(t_rpc_base))>>],
     [kind |-> "dict", items |-> <<Item(s_base, Str(t_blank))>>],
     [kind |-> "dict", items |-> <<Item(s_polygon, [t |-> "other"])>>]}

\* The chains the resolution is asked for.
ResolveChains == {s_base, s_polygon, s_scroll}

\* What client.list_publishers() can give: PublisherError, or the listed entries.
ListPublishersOutcomes ==
    {[kind |-> "PublisherError"]}
    \cup {[kind |-> "ok", publishers |-> c] :
            c \in {<<>>, <<P_base_rpc>>, <<P_matic, P_seren_base_rpc>>,
                   <<P_rpc_base, P_base_rpc, P_alpha>>, <<P_inactive, P_data>>,
                   <<P_alpha, P_blank>>}}

InitResolve ==
    /\ DiscoverOff
    /\ RunOff
    /\ ClientsOff
    /\ ListOff
    /\ SignOff
    /\ MainOff
    /\ ExtractOff
    /\ rsPc = "start"
    /\ rsIn \in [chain : ResolveChains, rpc_publishers : RpcPublisherConfigs]
    /\ rsCatalog = [kind |-> "none"]
    /\ rsRequests = <<>>
    /\ rsOut = [kind |-> "none"]

\* Lines 419-422: the overrides are validated and looked up first.
RsOverrides ==
    /\ rsPc = "start"
    /\ LET r == resolve_override(rsIn.chain, _rpc_publisher_overrides(rsIn.rpc_publishers))
       IN  IF r.kind = "fetch"
           THEN /\ rsPc' = "fetch"
                /\ UNCHANGED rsOut
           ELSE /\ rsPc' = "done"
                /\ rsOut' = r
    /\ UNCHANGED <<rsIn, rsCatalog, rsRequests, dcVars, runVars, clVars, lpVars, sgVars, mainVars, xtVars>>

\* Lines 424-438: the catalog is listed (one call of list_publishers) and searched.
RsDiscover ==
    /\ rsPc = "fetch"
    /\ \E listed \in ListPublishersOutcomes :
         /\ rsCatalog' = listed
         /\ rsRequests' = Append(rsRequests, "list_publishers")
         /\ rsOut' = IF listed.kind = "PublisherError"
                     THEN [kind |-> "PublisherError"]
                     ELSE resolve_discovered(rsIn.chain,
                                             _discovered_rpc_publishers(listed.publishers))
    /\ rsPc' = "done"
    /\ UNCHANGED <<rsIn, dcVars, runVars, clVars, lpVars, sgVars, mainVars, xtVars>>

NextResolve == RsOverrides \/ RsDiscover

SpecResolve == InitResolve /\ [][NextResolve]_vars

\* The items of config.rpc_publishers, none when it is missing or null.
OverrideItems(cfg) == IF cfg.kind = "dict" THEN cfg.items ELSE <<>>

\* config.rpc_publishers is rejected: no object, or an item that is not
\* (supported chain, non-blank string).
OverridesMalformed(cfg) ==
    \/ cfg.kind = "other"
    \/ \E i \in 1..Len(OverrideItems(cfg)) :
         \/ OverrideItems(cfg)[i].key \notin SUPPORTED_CHAINS
         \/ OverrideItems(cfg)[i].value.t # "str"
         \/ strip(OverrideItems(cfg)[i].value.v) = <<>>

HasOverride(cfg, chain) ==
    \E i \in 1..Len(OverrideItems(cfg)) : OverrideItems(cfg)[i].key = chain

\* `listing` enumerates exactly the mappings of d, sorted by chain.
EnumeratesSorted(listing, d) ==
    /\ Len(listing) = Cardinality(DOMAIN d)
    /\ \A c \in DOMAIN d : \E i \in 1..Len(listing) : listing[i] = <<c, d[c]>>
    /\ \A i, j \in 1..Len(listing) : i < j => str_less(listing[i][1], listing[j][1])

\* C9: resolution order of _rpc_publisher_for_chain.  (1) A well-formed
\* config.rpc_publishers with an entry for the chain returns that entry
\* (stripped), tagged config.rpc_publishers, and the catalog is not fetched (a
\* malformed config.rpc_publishers is rejected with ConfigError, also without a
\* fetch); (2) otherwise the catalog is listed once and the publisher discovered
\* for the chain is returned, tagged catalog:/publishers; (3) when the listing
\* has none for the chain, ConfigError is raised and its message enumerates
\* every discovered chain:slug mapping sorted by chain, or "none".
C9_ResolutionOrder ==
    rsPc = "done" =>
        IF OverridesMalformed(rsIn.rpc_publishers)
        THEN rsOut.kind = "ConfigError" /\ rsRequests = <<>>
        ELSE IF HasOverride(rsIn.rpc_publishers, rsIn.chain)
        THEN /\ rsRequests = <<>>
             /\ rsOut.kind = "return"
             /\ rsOut.source = "config.rpc_publishers"
             /\ \E i \in 1..Len(rsIn.rpc_publishers.items) :
                  /\ rsIn.rpc_publishers.items[i].key = rsIn.chain
                  /\ rsOut.publisher = strip(rsIn.rpc_publishers.items[i].value.v)
        ELSE /\ rsRequests = <<"list_publishers">>
             /\ rsCatalog.kind = "PublisherError" => rsOut.kind = "PublisherError"
             /\ rsCatalog.kind = "ok" =>
                  LET d == _discovered_rpc_publishers(rsCatalog.publishers)
                  IN  IF rsIn.chain \in DOMAIN d
                      THEN rsOut = [kind |-> "return", publisher |-> d[rsIn.chain],
                                    source |-> "catalog:/publishers"]
                      ELSE /\ rsOut.kind = "ConfigError"
                           /\ rsOut.chain = rsIn.chain
                           /\ IF DOMAIN d = {}
                              THEN rsOut.available = <<"none">>
                              ELSE EnumeratesSorted(rsOut.available, d)

\* C9 witness: no override for the chain, the catalog was listed, it has
\* publishers for two other chains, and the ConfigError enumerates both.
C9_Witness ==
    /\ rsPc = "done"
    /\ ~HasOverride(rsIn.rpc_publishers, rsIn.chain)
    /\ rsRequests = <<"list_publishers">>
    /\ rsOut.kind = "ConfigError"
    /\ rsCatalog.kind = "ok"
    /\ Len(rsOut.available) = 2
    /\ rsOut.available[1][1] = s_base
    /\ rsOut.available[2][1] = s_polygon

\* C9 (second witness state, the override case): the chain has an override and
\* it is returned without any request.
C9_OverrideReached ==
    /\ rsPc = "done"
    /\ HasOverride(rsIn.rpc_publishers, rsIn.chain)
    /\ rsOut.kind = "return"
    /\ rsRequests = <<>>

----------------------------------------------------------------------------
(* The Curve agent's run (agent.py, run_once).                             *)
(* A JSON value is [t |-> "missing"] (the key is absent), [t |-> "null"],  *)
(* [t |-> "bool", v], [t |-> "num", v], [t |-> "str", v] or                *)
(* [t |-> "other"] (a list or an object where none is expected).           *)

J_missing == [t |-> "missing"]
J_null == [t |-> "null"]
J_true == [t |-> "bool", v |-> TRUE]
J_false == [t |-> "bool", v |-> FALSE]
J_other == [t |-> "other"]
Num(n) == [t |-> "num", v |-> n]
Float(n) == [t |-> "float", v |-> n]

DEFAULT_DRY_RUN == J_true

\* d.get(key, default)
dict_get(value, default) == IF value.t = "missing" THEN default ELSE value

\* bool(x) on a JSON value ("other" stands for a non-empty list or object)
py_bool(x) ==
    CASE x.t = "bool" -> x.v
      [] x.t = "null" -> FALSE
      [] x.t = "num" -> x.v # 0
      [] x.t = "str" -> x.v # <<>>
      [] OTHER -> TRUE

t_false == <<"f", "a", "l", "s", "e">>
t_abc == <<"a", "b", "c">>

\* float(x) / int(x): the number, or the exception the conversion raises.
py_number(x) ==
    CASE x.t = "num" -> [kind |-> "ok", v |-> x.v]
      [] x.t = "bool" -> [kind |-> "ok", v |-> IF x.v THEN 1 ELSE 0]
      [] x.t = "str" -> [kind |-> "ValueError"]
      [] OTHER -> [kind |-> "TypeError"]

Raise(exc, error) == [kind |-> "raise", exc |-> exc, error |-> error]

\* A mutant of _resolve_inputs: live_mode is taken to be set whenever inputs is given.
_resolve_inputs_live_default(inputs) ==
    IF inputs.kind = "other" THEN Raise("ConfigError", "inputs must be an object")
    ELSE [kind |-> "ok",
          chain |-> dict_get(inputs.chain, Str(s_ethereum)).v,
          wallet_mode |-> dict_get(inputs.wallet_mode, Str("local")).v,
          live_mode |-> TRUE,
          deposit_amount_usd |-> 100,
          top_n_gauges |-> 3]

\* inputs is config.get("inputs", {}): [kind |-> "other"] when it is no object,
\* else its five keys as JSON values.
_resolve_inputs(inputs) ==
    IF inputs.kind = "other" THEN Raise("ConfigError", "inputs must be an object")
    ELSE LET chain == dict_get(inputs.chain, Str(s_ethereum)).v
             wallet_mode == dict_get(inputs.wallet_mode, Str("local")).v
             live_mode == py_bool(dict_get(inputs.live_mode, J_false))
             amount_usd == py_number(dict_get(inputs.deposit_amount_usd, Num(100)))
             top_n == py_number(dict_get(inputs.top_n_gauges, Num(3)))
         IN  IF amount_usd.kind # "ok" THEN Raise(amount_usd.kind, "float()")
             ELSE IF top_n.kind # "ok" THEN Raise(top_n.kind, "int()")
             ELSE IF chain \notin SUPPORTED_CHAINS
             THEN Raise("ConfigError", "Unsupported chain")
             ELSE IF wallet_mode \notin {"local", "ledger"}
             THEN Raise("ConfigError", "wallet_mode must be 'local' or 'ledger'")
             ELSE IF amount_usd.v <= 0
             THEN Raise("ConfigError", "deposit_amount_usd must be > 0")
             ELSE IF top_n.v < 1
             THEN Raise("ConfigError", "top_n_gauges must be >= 1")
             ELSE [kind |-> "ok", chain |-> chain, wallet_mode |-> wallet_mode,
                   live_mode |-> live_mode, deposit_amount_usd |-> amount_usd.v,
                   top_n_gauges |-> top_n.v]

InputsDict(chain, wallet_mode, live_mode, amount, top_n) ==
    [kind |-> "dict", chain |-> chain, wallet_mode |-> wallet_mode, live_mode |-> live_mode,
     deposit_amount_usd |-> amount, top_n_gauges |-> top_n]

\* The values of config["inputs"] a run is given: the well-formed ones, and one
\* for each way of being rejected.
RunInputs ==
    {InputsDict(c, w, l, J_missing, J_missing) :
        c \in {J_missing, Str(s_base)}, w \in {J_missing, Str("ledger")},
        l \in {J_missing, J_true, J_false, Str(t_false)}}
    \cup {[kind |-> "other"],
          InputsDict(Str(s_solana), J_missing, J_true, J_missing, J_missing),
          InputsDict(Str(s_base), Str("hot"), J_true, J_missing, J_missing),
          InputsDict(Str(s_base), J_missing, J_true, Num(0), J_missing),
          InputsDict(Str(s_base), J_missing, J_true, Str(t_abc), J_missing),
          InputsDict(Str(s_base), J_missing, J_true, Num(250), Num(0)),
          InputsDict(Str(s_base), J_missing, J_true, Num(250), J_null)}

\* The values of config["dry_run"] a run is given.
RunDryRuns == {J_missing, J_true, J_false, J_null}

\* config["wallet"]: no object ("other"), or its ledger_address ("" when missing).
RunWallets ==
    {[kind |-> "other"], [kind |-> "dict", ledger_address |-> ""],
     [kind |-> "dict", ledger_address |-> "0xCFG"]}

Unset == [kind |-> "unset"]

InitRun ==
    /\ DiscoverOff
    /\ ResolveOff
    /\ ClientsOff
    /\ ListOff
    /\ SignOff
    /\ ExtractOff
    /\ mainPc = "args"
    /\ mainOut = [kind |-> "none"]
    /\ runPc = "start"
    /\ runIn \in [yes_live : BOOLEAN, ledger_address : {"", "0xCLI"},
                  SEREN_API_KEY : {"", "sb_key"}]
    /\ runCfg = [dry_run |-> Unset, live_mode |-> Unset]
    /\ runLoc = [dry_run |-> Unset, inputs |-> Unset, resolved_ledger |-> Unset,
                 signer |-> Unset, required |-> Unset, probes |-> Unset,
                 errors |-> <<>>, rpc_capability |-> Unset, position_sync |-> Unset,
                 gauges_response |-> Unset, trade_plan |-> Unset, preflight |-> Unset]
    /\ runRequests = <<>>
    /\ runResult = [kind |-> "none"]

\* run_once returns or raises r: the run is over.
RunEnds(r) ==
    /\ runPc' = "done"
    /\ runResult' = r

\* Lines 638-652: the API key, the inputs, dry_run and the wallet settings.
RunStart ==
    /\ mainPc = "run_once"
    /\ runPc = "start"
    /\ \E inputs \in RunInputs, dry_run \in RunDryRuns, wallet \in RunWallets :
         LET resolved == _resolve_inputs(inputs)
         IN  IF runIn.SEREN_API_KEY = ""
             THEN /\ RunEnds(Raise("ConfigError", "SEREN_API_KEY is required"))
                  /\ UNCHANGED <<runCfg, runLoc>>
             ELSE IF resolved.kind = "raise"
             THEN /\ RunEnds(resolved)
                  /\ UNCHANGED <<runCfg, runLoc>>
             ELSE IF wallet.kind = "other"
             THEN /\ RunEnds(Raise("AttributeError", "wallet.get"))
                  /\ runCfg' = [dry_run |-> dry_run, live_mode |-> inputs.live_mode]
                  /\ UNCHANGED runLoc
             ELSE /\ runPc' = "signer"
                  /\ runCfg' = [dry_run |-> dry_run, live_mode |-> inputs.live_mode]
                  /\ runLoc' = [runLoc EXCEPT
                        !.inputs = resolved,
                        !.dry_run = py_bool(dict_get(dry_run, DEFAULT_DRY_RUN)),
                        !.resolved_ledger = IF runIn.ledger_address # ""
                                            THEN runIn.ledger_address
                                            ELSE wallet.ledger_address]
                  /\ UNCHANGED runResult
    /\ UNCHANGED <<runIn, runRequests, dcVars, rsVars, clVars, lpVars, sgVars, mainVars, xtVars>>

\* What reading the local wallet file can meet.
WalletFiles == {"absent", "invalid_json", "not_object", "missing_fields", "ok"}

load_local_wallet(file) ==
    CASE file = "absent" -> Raise("ConfigError", "Local wallet file not found")
      [] file = "invalid_json" -> Raise("JSONDecodeError", "json.loads")
      [] file = "not_object" -> Raise("ConfigError", "Local wallet file must contain a JSON object")
      [] file = "missing_fields" -> Raise("ConfigError", "Local wallet file is missing required fields")
      [] OTHER -> [kind |-> "ok", address |-> "0xWALLET", private_key_hex |-> "0xKEY"]

resolve_signer(wallet_mode, file, ledger_address) ==
    IF wallet_mode = "local"
    THEN LET wallet == load_local_wallet(file)
         IN  IF wallet.kind = "raise" THEN wallet
             ELSE [kind |-> "ok", mode |-> "local", address |-> wallet.address,
                   private_key_hex |-> wallet.private_key_hex]
    ELSE IF ledger_address = ""
    THEN Raise("ConfigError", "ledger mode requires --ledger-address")
    ELSE [kind |-> "ok", mode |-> "ledger", address |-> ledger_address]

\* Lines 654-658: signer = resolve_signer(...)
RunResolveSigner ==
    /\ runPc = "signer"
    /\ \E file \in WalletFiles :
         LET signer == resolve_signer(runLoc.inputs.wallet_mode, file, runLoc.resolved_ledger)
         IN  /\ runLoc.inputs.wallet_mode = "ledger" => file = "ok"
             /\ IF signer.kind = "raise"
                THEN /\ RunEnds(signer)
                     /\ UNCHANGED runLoc
                ELSE /\ runPc' = "rpc_capability"
                     /\ runLoc' = [runLoc EXCEPT !.signer = signer]
                     /\ UNCHANGED runResult
    /\ UNCHANGED <<runIn, runCfg, runRequests, dcVars, rsVars, clVars, lpVars, sgVars, mainVars, xtVars>>

UpperOf ==
    [c \in {Ascii[i] : i \in 1..Len(Ascii)} |->
        IF \E i \in 1..Len(Lowers) : Lowers[i] = c
        THEN Uppers[CHOOSE i \in 1..Len(Lowers) : Lowers[i] = c]
        ELSE c]

\* str.upper()
upper(s) == [i \in 1..Len(s) |-> UpperOf[s[i]]]

m_GET == <<"G", "E", "T">>
m_POST == <<"P", "O", "S", "T">>
m_PUT == <<"P", "U", "T">>
m_PATCH == <<"P", "A", "T", "C", "H">>
m_DELETE == <<"D", "E", "L", "E", "T", "E">>
m_post == <<"p", "o", "s", "t">>
m_TRACE == <<"T", "R", "A", "C", "E">>
p_health == <<"/", "h", "e", "a", "l", "t", "h">>
p_root == <<"/">>
p_rpc == <<"/", "r", "p", "c">>
p_custom == <<"/", "c", "u", "s", "t", "o", "m">>
p_noslash == <<"s", "t", "a", "t", "u", "s">>
p_sync == <<"/", "s", "y", "n", "c">>
s_evm_exec == <<"e", "v", "m", "-", "e", "x", "e", "c">>
s_curve_finance == <<"c", "u", "r", "v", "e", "-", "f", "i", "n", "a", "n", "c", "e">>
DEFAULT_POSITION_SYNC_PATH == <<"/", "p", "o", "s", "i", "t", "i", "o", "n", "s", "/", "u", "p", "d", "a", "t", "e">>
p_preflight_liquidity == <<"/", "p", "r", "e", "f", "l", "i", "g", "h", "t", "/", "l", "i", "q", "u", "i", "d", "i", "t", "y">>
p_trade_liquidity == <<"/", "t", "r", "a", "d", "e", "/", "l", "i", "q", "u", "i", "d", "i", "t", "y">>
p_gauges_highest_rewards == <<"/", "g", "a", "u", "g", "e", "s", "/", "h", "i", "g", "h", "e", "s", "t", "-", "r", "e", "w", "a", "r", "d", "s">>

Probe(method, path) == [method |-> method, path |-> path]

DEFAULT_RPC_PROBES == <<Probe(m_GET, p_health), Probe(m_POST, p_root), Probe(m_POST, p_rpc)>>

\* A probe of the config: [kind |-> "other"] (no object), or its method and path
\* as JSON values and whether its body is an object.
RawProbe(method, path, body_is_dict) ==
    [kind |-> "dict", method |-> method, path |-> path, body_is_dict |-> body_is_dict]

\* for index, probe in enumerate(probes_raw): ... (from probe i on)
RECURSIVE clean_probes(_, _, _)
clean_probes(probes_raw, i, probes) ==
    IF i > Len(probes_raw) THEN [kind |-> "ok", probes |-> probes]
    ELSE LET probe == probes_raw[i]
         IN  IF probe.kind # "dict"
             THEN Raise("ConfigError", "rpc_capability.probes[i] must be an object")
             ELSE LET method == upper(dict_get(probe.method, Str(m_GET)).v)
                      path == dict_get(probe.path, Str(<<>>)).v
                  IN  IF method \notin {m_GET, m_POST, m_PUT, m_PATCH, m_DELETE}
                      THEN Raise("ConfigError", "rpc_capability.probes[i].method is not supported")
                      ELSE IF ~startswith(path, p_root)
                      THEN Raise("ConfigError", "rpc_capability.probes[i].path must start with '/'")
                      ELSE IF ~probe.body_is_dict
                      THEN Raise("ConfigError", "rpc_capability.probes[i].body must be an object")
                      ELSE clean_probes(probes_raw, i + 1, Append(probes, Probe(method, path)))

\* capability is config.get("rpc_capability", {}): [kind |-> "other"], or its
\* required (a JSON value) and its probes ([kind |-> "none"] when missing or
\* null, [kind |-> "other"] when no list, else [kind |-> "list", items]).
_rpc_probe_config(capability) ==
    IF capability.kind = "other"
    THEN Raise("ConfigError", "rpc_capability must be an object when provided")
    ELSE LET required == py_bool(dict_get(capability.required, J_true))
         IN  IF capability.probes.kind = "none"
             THEN [kind |-> "ok", required |-> required, probes |-> DEFAULT_RPC_PROBES]
             ELSE IF capability.probes.kind # "list" \/ capability.probes.items = <<>>
             THEN Raise("ConfigError", "rpc_capability.probes must be a non-empty list")
             ELSE LET cleaned == clean_probes(capability.probes.items, 1, <<>>)
                  IN  IF cleaned.kind = "raise" THEN cleaned
                      ELSE [kind |-> "ok", required |-> required, probes |-> cleaned.probes]

Capability(required, probes) == [kind |-> "dict", required |-> required, probes |-> probes]

ProbeList(items) == [kind |-> "list", items |-> items]

\* The values of config["rpc_capability"] a run is given.
RunCapabilities ==
    {[kind |-> "other"],
     Capability(J_missing, [kind |-> "none"]),
     Capability(J_false, [kind |-> "none"]),
     Capability(J_null, ProbeList(<<RawProbe(Str(m_post), Str(p_custom), TRUE)>>)),
     Capability(J_missing, ProbeList(<<RawProbe(J_missing, Str(p_health), TRUE),
                                       RawProbe(Str(m_post), Str(p_custom), TRUE)>>)),
     Capability(J_missing, ProbeList(<<>>)),
     Capability(J_missing, [kind |-> "other"]),
     Capability(J_missing, ProbeList(<<[kind |-> "other"]>>)),
     Capability(J_missing, ProbeList(<<RawProbe(Str(m_TRACE), Str(p_custom), TRUE)>>)),
     Capability(J_missing, ProbeList(<<RawProbe(Str(m_GET), Str(p_noslash), TRUE)>>)),
     Capability(J_missing, ProbeList(<<RawProbe(Str(m_GET), J_missing, TRUE)>>)),
     Capability(J_missing, ProbeList(<<RawProbe(Str(m_GET), Str(p_custom), FALSE)>>))}

\* The values of config["rpc_publishers"] a run is given.
RunRpcPublishers ==
    {[kind |-> "missing"], [kind |-> "other"],
     [kind |-> "dict", items |-> <<Item(s_base, Str(t_padded))>>]}

\* check_rpc_capability, lines 485-491: the probe settings are read, then the
\* publisher of the chain is resolved (_rpc_publisher_for_chain is entered).
RunRpcProbeConfig ==
    /\ runPc = "rpc_capability"
    /\ \E capability \in RunCapabilities, rpc_publishers \in RunRpcPublishers :
         LET cfg == _rpc_probe_config(capability)
         IN  IF cfg.kind = "raise"
             THEN /\ RunEnds(cfg)
                  /\ UNCHANGED <<runLoc, rsVars>>
             ELSE /\ runPc' = "rpc_publisher"
                  /\ runLoc' = [runLoc EXCEPT !.required = cfg.required, !.probes = cfg.probes]
                  /\ rsPc' = "start"
                  /\ rsIn' = [chain |-> runLoc.inputs.chain, rpc_publishers |-> rpc_publishers]
                  /\ UNCHANGED <<runResult, rsCatalog, rsRequests, rsOut>>
    /\ UNCHANGED <<runIn, runCfg, runRequests, dcVars, clVars, lpVars, sgVars, mainVars, xtVars>>

p_publishers == <<"/", "p", "u", "b", "l", "i", "s", "h", "e", "r", "s">>

\* One request of the run: the publisher called ("" for the gateway's own
\* catalog), the HTTP method and the path.
Request(publisher, method, path) == [publisher |-> publisher, method |-> method, path |-> path]

\* Lines 487-492: _rpc_publisher_for_chain has returned or raised.
RunRpcResolved ==
    /\ runPc = "rpc_publisher"
    /\ rsPc = "done"
    /\ runRequests' = runRequests
            \o [i \in 1..Len(rsRequests) |-> Request(<<>>, m_GET, p_publishers)]
    /\ IF rsOut.kind = "return"
       THEN /\ runPc' = "probe"
            /\ runLoc' = [runLoc EXCEPT
                  !.rpc_capability = [status |-> "pending", publisher |-> rsOut.publisher,
                                      publisher_source |-> rsOut.source]]
            /\ UNCHANGED runResult
       ELSE /\ RunEnds(Raise(rsOut.kind, "_rpc_publisher_for_chain"))
            /\ UNCHANGED runLoc
    /\ rsPc' = "off"
    /\ rsIn' = [kind |-> "none"]
    /\ rsCatalog' = [kind |-> "none"]
    /\ rsRequests' = <<>>
    /\ rsOut' = [kind |-> "none"]
    /\ UNCHANGED <<runIn, runCfg, dcVars, clVars, lpVars, sgVars, mainVars, xtVars>>

\* How client.call can end: a JSON object, PublisherError (HTTP error status,
\* connection failure, no JSON object), or another exception that _request
\* does not catch (a socket timeout while the body is read).
CallOutcomes == {"ok", "PublisherError", "TimeoutError"}

\* A mutant of probes_exhausted: a failed check is never fatal.
probes_exhausted_never_required(required, publisher, publisher_source, probes, errors) ==
    [kind |-> "ok",
     rpc_capability |-> [status |-> "warning", required |-> required, publisher |-> publisher,
                         publisher_source |-> publisher_source,
                         attempted |-> probes, errors |-> errors]]

\* Lines 517-535: every probe has failed.
probes_exhausted(required, publisher, publisher_source, probes, errors) ==
    IF required
    THEN [kind |-> "raise", exc |-> "ConfigError", error |-> "RPC capability check failed",
          attempted |-> probes, errors |-> errors]
    ELSE [kind |-> "ok",
          rpc_capability |-> [status |-> "warning", required |-> required,
                              publisher |-> publisher, publisher_source |-> publisher_source,
                              attempted |-> probes, errors |-> errors]]

\* A mutant of next_probe: the list is gone through from its end.
next_probe_from_end(probes, errors) == probes[Len(probes) - Len(errors)]

\* Line 494, for probe in probes: the probe of the turn that follows the
\* turns that failed.
next_probe(probes, errors) == probes[Len(errors) + 1]

\* Lines 494-535: one turn of the probe loop, and what follows the loop when
\* the probe was the last one and failed.
RunProbe ==
    /\ runPc = "probe"
    /\ \E outcome \in CallOutcomes :
         LET probe == next_probe(runLoc.probes, runLoc.errors)
             publisher == runLoc.rpc_capability.publisher
             source == runLoc.rpc_capability.publisher_source
             errors == Append(runLoc.errors, probe)
             after == probes_exhausted(runLoc.required, publisher, source, runLoc.probes, errors)
             leave(capability) == [runLoc EXCEPT !.rpc_capability = capability,
                                                 !.required = Unset, !.probes = Unset,
                                                 !.errors = <<>>]
         IN  /\ runRequests' = Append(runRequests, Request(publisher, probe.method, probe.path))
             /\ CASE outcome = "ok" ->
                       /\ runPc' = "position_sync"
                       /\ runLoc' = leave([status |-> "ok", required |-> runLoc.required,
                                           publisher |-> publisher, publisher_source |-> source,
                                           probe |-> probe])
                       /\ UNCHANGED runResult
                  [] outcome = "TimeoutError" ->
                       /\ RunEnds(Raise("TimeoutError", "client.call"))
                       /\ UNCHANGED runLoc
                  [] outcome = "PublisherError" /\ Len(errors) < Len(runLoc.probes) ->
                       /\ runLoc' = [runLoc EXCEPT !.errors = errors]
                       /\ UNCHANGED <<runPc, runResult>>
                  [] outcome = "PublisherError" /\ Len(errors) = Len(runLoc.probes) ->
                       IF after.kind = "raise"
                       THEN /\ RunEnds(after)
                            /\ UNCHANGED runLoc
                       ELSE /\ runPc' = "position_sync"
                            /\ runLoc' = leave(after.rpc_capability)
                            /\ UNCHANGED runResult
    /\ UNCHANGED <<runIn, runCfg, dcVars, rsVars, clVars, lpVars, sgVars, mainVars, xtVars>>

\* config.get("position_sync", {}): [kind |-> "other"] when it is no object,
\* else its enabled and path as JSON values.
PositionSync(enabled, path) == [kind |-> "dict", enabled |-> enabled, path |-> path]

RunPositionSyncs ==
    {[kind |-> "other"],
     PositionSync(J_missing, J_missing),
     PositionSync(J_false, J_missing),
     PositionSync(J_missing, Str(p_sync)),
     PositionSync(J_false, Str(p_noslash))}

\* Lines 664-671: whether positions are synced, and on which path.
position_sync_settings(position_sync_config) ==
    IF position_sync_config.kind = "dict"
    THEN [enabled |-> py_bool(dict_get(position_sync_config.enabled, J_true)),
          path |-> dict_get(position_sync_config.path, Str(DEFAULT_POSITION_SYNC_PATH)).v]
    ELSE [enabled |-> TRUE, path |-> DEFAULT_POSITION_SYNC_PATH]

\* A mutant of position_sync_failed: a failed sync is a warning in every mode.
position_sync_failed_warns(dry_run, live_mode) ==
    [kind |-> "ok", position_sync |-> [status |-> "warning"]]

\* A mutant of position_sync_failed: a failed sync aborts the run in every mode.
position_sync_failed_aborts(dry_run, live_mode) ==
    Raise("ConfigError", "Position sync failed before live trade")

\* Lines 684-690: sync_positions raised PublisherError.
position_sync_failed(dry_run, live_mode) ==
    IF dry_run \/ ~live_mode
    THEN [kind |-> "ok", position_sync |-> [status |-> "warning"]]
    ELSE Raise("ConfigError", "Position sync failed before live trade")

\* Lines 664-690: the position sync.
RunPositionSync ==
    /\ runPc = "position_sync"
    /\ \E position_sync_config \in RunPositionSyncs, outcome \in CallOutcomes :
         LET settings == position_sync_settings(position_sync_config)
             failed == position_sync_failed(runLoc.dry_run, runLoc.inputs.live_mode)
         IN  IF ~startswith(settings.path, p_root)
             THEN /\ outcome = "ok"
                  /\ RunEnds(Raise("ConfigError", "position_sync.path must start with '/'"))
                  /\ UNCHANGED <<runLoc, runRequests>>
             ELSE IF ~settings.enabled
             THEN /\ outcome = "ok"
                  /\ runPc' = "gauges"
                  /\ runLoc' = [runLoc EXCEPT !.position_sync = [status |-> "skipped"]]
                  /\ UNCHANGED <<runResult, runRequests>>
             ELSE /\ runRequests' = Append(runRequests, Request(s_evm_exec, m_POST, settings.path))
                  /\ CASE outcome = "ok" ->
                            /\ runPc' = "gauges"
                            /\ runLoc' = [runLoc EXCEPT !.position_sync = [status |-> "synced"]]
                            /\ UNCHANGED runResult
                       [] outcome = "TimeoutError" ->
                            /\ RunEnds(Raise("TimeoutError", "client.call"))
                            /\ UNCHANGED runLoc
                       [] outcome = "PublisherError" ->
                            IF failed.kind = "raise"
                            THEN /\ RunEnds(failed)
                                 /\ UNCHANGED runLoc
                            ELSE /\ runPc' = "gauges"
                                 /\ runLoc' = [runLoc EXCEPT !.position_sync = failed.position_sync]
                                 /\ UNCHANGED runResult
    /\ UNCHANGED <<runIn, runCfg, dcVars, rsVars, clVars, lpVars, sgVars, mainVars, xtVars>>

\* gauges_response["gauges"]: missing or empty, or a list whose first entry has
\* (or lacks) an address.
GaugesResponses == {"none", "top_without_address", "top_with_address"}

choose_trade_plan(gauges_response, amount_usd) ==
    [amount_usd |-> amount_usd,
     gauge_address |-> IF gauges_response = "top_with_address" THEN "0xGAUGE" ELSE "unknown"]

\* Lines 691-700: the gauges are fetched and the trade plan chosen.
RunFetchGauges ==
    /\ runPc = "gauges"
    /\ runRequests' = Append(runRequests,
                             Request(s_curve_finance, m_GET, p_gauges_highest_rewards))
    /\ \E outcome \in CallOutcomes, gauges_response \in GaugesResponses :
         IF outcome = "ok"
         THEN /\ runPc' = "preflight"
              /\ runLoc' = [runLoc EXCEPT
                    !.gauges_response = gauges_response,
                    !.trade_plan = choose_trade_plan(gauges_response,
                                                     runLoc.inputs.deposit_amount_usd)]
              /\ UNCHANGED runResult
         ELSE /\ gauges_response = "none"
              /\ RunEnds(Raise(outcome, "client.call"))
              /\ UNCHANGED runLoc
    /\ UNCHANGED <<runIn, runCfg, dcVars, rsVars, clVars, lpVars, sgVars, mainVars, xtVars>>

\* A mutant of live_gate: --yes-live is not asked for.
live_gate_without_confirmation(dry_run, live_mode, yes_live) ==
    IF dry_run \/ ~live_mode THEN "dry-run" ELSE "live"

\* Lines 708-729: what run_once does once the preflight has answered.
live_gate(dry_run, live_mode, yes_live) ==
    IF dry_run \/ ~live_mode THEN "dry-run"
    ELSE IF ~yes_live THEN "ConfigError"
    ELSE "live"

\* What run_once returns (the mode and the parts the checks read).
RunReturn(mode) ==
    [kind |-> "return", status |-> "ok", mode |-> mode,
     rpc_capability |-> runLoc.rpc_capability, position_sync |-> runLoc.position_sync,
     trade_plan |-> runLoc.trade_plan]

\* Lines 701-729: the preflight call and the decision that follows it.
RunPreflight ==
    /\ runPc = "preflight"
    /\ runRequests' = Append(runRequests, Request(s_evm_exec, m_POST, p_preflight_liquidity))
    /\ \E outcome \in CallOutcomes :
         LET gate == live_gate(runLoc.dry_run, runLoc.inputs.live_mode, runIn.yes_live)
         IN  IF outcome # "ok"
             THEN /\ RunEnds(Raise(outcome, "client.call"))
                  /\ UNCHANGED runLoc
             ELSE CASE gate = "dry-run" ->
                         /\ RunEnds(RunReturn("dry-run"))
                         /\ runLoc' = [runLoc EXCEPT !.preflight = [status |-> "ok"]]
                    [] gate = "ConfigError" ->
                         /\ RunEnds(Raise("ConfigError",
                                            "Live mode requested but --yes-live was not provided"))
                         /\ runLoc' = [runLoc EXCEPT !.preflight = [status |-> "ok"]]
                    [] gate = "live" ->
                         /\ runPc' = "live_trade"
                         /\ runLoc' = [runLoc EXCEPT !.preflight = [status |-> "ok"]]
                         /\ UNCHANGED runResult
    /\ UNCHANGED <<runIn, runCfg, dcVars, rsVars, clVars, lpVars, sgVars, mainVars, xtVars>>

\* Lines 731-748: the live trade.
RunLiveTrade ==
    /\ runPc = "live_trade"
    /\ runRequests' = Append(runRequests, Request(s_evm_exec, m_POST, p_trade_liquidity))
    /\ \E outcome \in CallOutcomes :
         IF outcome = "ok"
         THEN RunEnds(RunReturn("live"))
         ELSE RunEnds(Raise(outcome, "client.call"))
    /\ UNCHANGED <<runIn, runCfg, runLoc, dcVars, rsVars, clVars, lpVars, sgVars, mainVars, xtVars>>

\* What reading the config file can meet.
ConfigFiles == {"absent", "invalid_json", "not_object", "undecodable", "ok"}

\* load_config, lines 199-209; read_text(encoding="utf-8") raises
\* UnicodeDecodeError on a file that is no UTF-8.
load_config(file) ==
    CASE file = "absent" -> Raise("ConfigError", "Config file not found")
      [] file = "undecodable" -> Raise("UnicodeDecodeError", "read_text")
      [] file = "invalid_json" -> Raise("ConfigError", "Invalid JSON config")
      [] file = "not_object" -> Raise("ConfigError", "Config must be a JSON object.")
      [] OTHER -> [kind |-> "ok"]

\* main, lines 778-787: what is printed and the exit code, for what load_config
\* or run_once returned or raised.  An exception main does not catch ends the
\* process with the interpreter's traceback on stderr and exit code 1.
main_exit(outcome) ==
    IF outcome.kind = "return"
    THEN [kind |-> "exit", stdout |-> <<outcome>>, exit_code |-> 0, traceback |-> FALSE,
          outcome |-> outcome]
    ELSE IF outcome.exc \in {"ConfigError", "PublisherError"}
    THEN [kind |-> "exit", stdout |-> <<[status |-> "error", error |-> outcome.error]>>,
          exit_code |-> 1, traceback |-> FALSE, outcome |-> outcome]
    ELSE [kind |-> "exit", stdout |-> <<>>, exit_code |-> 1, traceback |-> TRUE,
          outcome |-> outcome]

\* main, lines 752-771: --init-wallet was given; create_local_wallet returns,
\* or raises ConfigError (eth-account is missing).
MainInitWallet ==
    /\ mainPc = "args"
    /\ \E created \in {"ok", "ConfigError"} :
         mainOut' = [kind |-> "exit",
                     stdout |-> <<[status |-> IF created = "ok" THEN "ok" ELSE "error"]>>,
                     exit_code |-> IF created = "ok" THEN 0 ELSE 1,
                     traceback |-> FALSE,
                     outcome |-> [kind |-> "init_wallet"]]
    /\ mainPc' = "exited"
    /\ UNCHANGED <<runVars, dcVars, rsVars, clVars, lpVars, sgVars, xtVars>>

\* main, lines 773-775: config = load_config(args.config)
MainLoadConfig ==
    /\ mainPc = "args"
    /\ \E file \in ConfigFiles :
         LET config == load_config(file)
         IN  IF config.kind = "raise"
             THEN /\ mainPc' = "exited"
                  /\ mainOut' = main_exit(config)
             ELSE /\ mainPc' = "run_once"
                  /\ UNCHANGED mainOut
    /\ UNCHANGED <<runVars, dcVars, rsVars, clVars, lpVars, sgVars, xtVars>>

\* main, lines 775-787: run_once has returned or raised.
MainExit ==
    /\ mainPc = "run_once"
    /\ runPc = "done"
    /\ mainPc' = "exited"
    /\ mainOut' = main_exit(runResult)
    /\ UNCHANGED <<runVars, dcVars, rsVars, clVars, lpVars, sgVars, xtVars>>

NextRun ==
    \/ MainInitWallet
    \/ MainLoadConfig
    \/ MainExit
    \/ RunStart
    \/ RunResolveSigner
    \/ RunRpcProbeConfig
    \/ RsOverrides
    \/ RsDiscover
    \/ RunRpcResolved
    \/ RunProbe
    \/ RunPositionSync
    \/ RunFetchGauges
    \/ RunPreflight
    \/ RunLiveTrade

SpecRun == InitRun /\ [][NextRun]_vars

\* A flag as the config file gives it: its default when the key is absent,
\* else the truth value of what is written.
FlagOf(written, default) ==
    IF written.t = "missing" THEN default
    ELSE IF written.t = "bool" THEN written.v
    ELSE IF written.t = "null" THEN FALSE
    ELSE IF written.t = "num" THEN written.v # 0
    ELSE IF written.t = "str" THEN Len(written.v) > 0
    ELSE TRUE

LiveTradeRequest == Request(s_evm_exec, m_POST, p_trade_liquidity)

LiveTradeSent == \E i \in 1..Len(runRequests) : runRequests[i] = LiveTradeRequest

\* The run has come to the end of the preflight call with an answer.
PreflightAnswered == runPc \in {"live_trade", "done"} /\ runLoc.preflight # Unset

\* C1: the live-trade request is in the run's requests only if dry_run is false,
\* live_mode is true and yes_live is true, with dry_run true when the config has
\* no dry_run; and a run whose preflight has answered returns mode 'dry-run'
\* when dry_run is true or live_mode is false, raises ConfigError when live is
\* requested without yes_live, and otherwise goes on to the live trade.
C1_LiveTradeOnlyWhenAllThree ==
    LET dry_run == FlagOf(runCfg.dry_run, TRUE)
        live_mode == FlagOf(runCfg.live_mode, FALSE)
    IN  /\ LiveTradeSent => (~dry_run /\ live_mode /\ runIn.yes_live)
        /\ PreflightAnswered =>
              IF dry_run \/ ~live_mode
              THEN /\ runPc = "done"
                   /\ runResult.kind = "return"
                   /\ runResult.mode = "dry-run"
                   /\ ~LiveTradeSent
              ELSE IF ~runIn.yes_live
              THEN /\ runPc = "done"
                   /\ runResult.kind = "raise"
                   /\ runResult.exc = "ConfigError"
                   /\ ~LiveTradeSent
              ELSE \/ runPc = "live_trade" /\ ~LiveTradeSent
                   \/ runPc = "done" /\ runRequests[Len(runRequests)] = LiveTradeRequest

\* C1 witness: a run that sent the live trade and returned mode 'live', with
\* dry_run false, live_mode true and --yes-live given.
C1_Witness ==
    /\ runPc = "done"
    /\ runResult.kind = "return"
    /\ runResult.mode = "live"
    /\ runRequests[Len(runRequests)] = LiveTradeRequest
    /\ runCfg.dry_run = J_false
    /\ runCfg.live_mode = J_true
    /\ runIn.yes_live

\* A run with no dry_run in its config and live_mode true ends in mode 'dry-run'.
C1_AbsentDryRunReached ==
    /\ runPc = "done"
    /\ runResult.kind = "return"
    /\ runResult.mode = "dry-run"
    /\ runCfg.dry_run = J_missing
    /\ runCfg.live_mode = J_true
    /\ runIn.yes_live

----------------------------------------------------------------------------
(* The Coinbase gateway client (seren_client.py, SerenClient).             *)

\* Python's None, where a str is expected.
PyNone == "<None>"

\* bool(x) on Optional[str]
truthy(x) == x # PyNone /\ x # ""

\* a or b
py_or(a, b) == IF truthy(a) THEN a ELSE b

\* The argument values a constructor is given for a credential.
CbCredentials(value) == {PyNone, "", value}

\* Optional[bool] as "None", "True" or "False".
OptionalBools == {"None", "True", "False"}

\* A mutant of SerenClient_init: the explicit flag is ignored.
SerenClient_init_autodetect(args) ==
    LET has_direct_credentials ==
            truthy(args.cb_access_key) /\ truthy(args.cb_secret) /\ truthy(args.cb_passphrase)
    IN  [kind |-> "ok",
         self |-> [seren_api_key |-> args.seren_api_key,
                   cb_access_key |-> args.cb_access_key,
                   cb_secret |-> args.cb_secret,
                   cb_passphrase |-> args.cb_passphrase,
                   publisher_authenticated |-> ~has_direct_credentials,
                   auth_mode |-> IF ~has_direct_credentials THEN "publisher_authenticated"
                                 ELSE "direct_coinbase_headers"]]

\* A mutant of SerenClient_init: the credentials are not checked.
SerenClient_init_unchecked(args) ==
    LET has_direct_credentials ==
            truthy(args.cb_access_key) /\ truthy(args.cb_secret) /\ truthy(args.cb_passphrase)
        publisher_authenticated ==
            IF args.publisher_authenticated = "None" THEN ~has_direct_credentials
            ELSE args.publisher_authenticated = "True"
    IN  [kind |-> "ok",
         self |-> [seren_api_key |-> args.seren_api_key,
                   cb_access_key |-> args.cb_access_key,
                   cb_secret |-> args.cb_secret,
                   cb_passphrase |-> args.cb_passphrase,
                   publisher_authenticated |-> publisher_authenticated,
                   auth_mode |-> IF publisher_authenticated THEN "publisher_authenticated"
                                 ELSE "direct_coinbase_headers"]]

\* SerenClient.__init__
SerenClient_init(args) ==
    LET has_direct_credentials ==
            truthy(args.cb_access_key) /\ truthy(args.cb_secret) /\ truthy(args.cb_passphrase)
        publisher_authenticated ==
            IF args.publisher_authenticated = "None" THEN ~has_direct_credentials
            ELSE args.publisher_authenticated = "True"
    IN  IF ~publisher_authenticated /\ ~has_direct_credentials
        THEN [kind |-> "raise", exc |-> "ValueError",
              error |-> "Legacy Coinbase header mode requires CB_ACCESS_KEY, CB_ACCESS_SECRET, and CB_ACCESS_PASSPHRASE"]
        ELSE [kind |-> "ok",
              self |-> [seren_api_key |-> args.seren_api_key,
                        cb_access_key |-> args.cb_access_key,
                        cb_secret |-> args.cb_secret,
                        cb_passphrase |-> args.cb_passphrase,
                        publisher_authenticated |-> publisher_authenticated,
                        auth_mode |-> IF publisher_authenticated THEN "publisher_authenticated"
                                      ELSE "direct_coinbase_headers"]]

InitCoinbase ==
    /\ cbPc = "new"
    /\ cbArgs \in [seren_api_key : {"sb_key"},
                   cb_access_key : CbCredentials("cb-key"),
                   cb_secret : CbCredentials("c2VjcmV0"),
                   cb_passphrase : CbCredentials("cb-pass"),
                   publisher_authenticated : OptionalBools]
    /\ cbSelf = [kind |-> "none"]
    /\ cbLast = [kind |-> "none"]

\* client = SerenClient(...)
CbConstruct ==
    /\ cbPc = "new"
    /\ LET made == SerenClient_init(cbArgs)
       IN  IF made.kind = "raise"
           THEN /\ cbPc' = "failed"
                /\ cbLast' = made
                /\ UNCHANGED cbSelf
           ELSE /\ cbPc' = "ready"
                /\ cbSelf' = made.self
                /\ UNCHANGED cbLast
    /\ UNCHANGED <<cbArgs, pmVars, dcVars, rsVars, runVars, lpVars, sgVars, mainVars, xtVars>>

\* dict.update: the entries of b over those of a.
dict_update(a, b) ==
    [k \in DOMAIN a \cup DOMAIN b |-> IF k \in DOMAIN b THEN b[k] ELSE a[k]]

\* A body or the params of a request: a sequence of <<key, value>>, <<>> for
\* None or an empty dict; a key is a text, a value a JSON str or bool.

\* json.dumps of a str without a character that JSON escapes, or of a bool
json_value(v) ==
    IF v.t = "str" THEN <<"\"">> \o v.v \o <<"\"">>
    ELSE IF v.v THEN <<"t", "r", "u", "e">> ELSE <<"f", "a", "l", "s", "e">>

\* json.dumps(body) for a dict with str keys
json_dumps(body) ==
    <<"{">>
    \o join(<<",", " ">>,
            [i \in 1..Len(body) |->
                json_value(Str(body[i][1])) \o <<":", " ">> \o json_value(body[i][2])])
    \o <<"}">>

\* Line 109: body_str = json.dumps(body) if body else ''
body_str_of(body) == IF body = <<>> THEN <<>> ELSE json_dumps(body)

\* Lines 115-117: '?' + '&'.join(f'{k}={v}' ...), '' without params
query_string_of(params) ==
    IF params = <<>> THEN <<>>
    ELSE <<"?">> \o join(<<"&">>,
                         [i \in 1..Len(params) |-> params[i][1] \o <<"=">> \o params[i][2].v])

\* urllib's quote_plus on one character: letters, digits and _ . - ~ are kept,
\* a space becomes +, every other character its percent code.
quote_char(c) ==
    CASE c = " " -> <<"+">>
      [] c = "/" -> <<"%", "2", "F">>
      [] c = ":" -> <<"%", "3", "A">>
      [] c = "&" -> <<"%", "2", "6">>
      [] c = "=" -> <<"%", "3", "D">>
      [] c = "+" -> <<"%", "2", "B">>
      [] c = "?" -> <<"%", "3", "F">>
      [] OTHER -> <<c>>

RECURSIVE quote_plus(_)
quote_plus(text) ==
    IF text = <<>> THEN <<>> ELSE quote_char(Head(text)) \o quote_plus(Tail(text))

\* The query the HTTP layer sends for params (requests encodes them with
\* urlencode): '' without params.
urlencode(params) ==
    join(<<"&">>,
         [i \in 1..Len(params) |-> quote_plus(params[i][1]) \o <<"=">> \o quote_plus(params[i][2].v)])

\* Lines 127-134: the path and query of the URL requests.request sends for
\* url=.../publishers/coinbase-trading{path} and params=params.
sent_path(path, params) ==
    IF params = <<>> THEN path ELSE path \o <<"?">> \o urlencode(params)

\* base64.b64decode of a secret (line 82), for the secrets drawn here: the key
\* bytes, named by their text.  The decoder drops the bits left over in the
\* last character, so 'QQ==' and 'QR==' are the same one-byte key.
b64decode(secret) ==
    CASE secret = "c2VjcmV0" -> "secret"
      [] secret = "QQ==" -> "A"
      [] secret = "QR==" -> "A"
      [] secret = "Qg==" -> "B"
      [] secret = "" -> ""

\* A mutant of _sign: the clock is read again for the timestamp it returns.
_sign_clock_read_twice(self, method, path, body_str, timestamp) ==
    [signature |-> <<"hmac-sha256", b64decode(self.cb_secret),
                     timestamp \o upper(method) \o path \o body_str>>,
     timestamp |-> timestamp \o <<"1">>]

\* A mutant of _sign: the method is left out of the signed message.
_sign_without_method(self, method, path, body_str, timestamp) ==
    [signature |-> <<"hmac-sha256", b64decode(self.cb_secret), timestamp \o path \o body_str>>,
     timestamp |-> timestamp]

\* _sign, with the value of str(time.time()) it reads: the signature (the HMAC
\* of the message under the decoded secret, kept as the key and the
\* message) and the timestamp.
_sign(self, method, path, body_str, timestamp) ==
    LET message == timestamp \o upper(method) \o path \o body_str
    IN  [signature |-> <<"hmac-sha256", b64decode(self.cb_secret), message>>,
         timestamp |-> timestamp]

\* Lines 108-125: the headers of a request.  A header value is a tuple of texts.
call_headers(self, method, full_path, body_str, timestamp) ==
    LET headers == [h \in {"Authorization", "Content-Type"} |->
                        IF h = "Authorization" THEN <<"Bearer", self.seren_api_key>>
                        ELSE <<"application/json">>]
        signed == _sign(self, method, full_path, body_str, timestamp)
    IN  IF ~self.publisher_authenticated
        THEN dict_update(headers,
                [h \in {"CB-ACCESS-KEY", "CB-ACCESS-SIGN", "CB-ACCESS-TIMESTAMP",
                        "CB-ACCESS-PASSPHRASE"} |->
                    CASE h = "CB-ACCESS-KEY" -> <<py_or(self.cb_access_key, "")>>
                      [] h = "CB-ACCESS-SIGN" -> signed.signature
                      [] h = "CB-ACCESS-TIMESTAMP" -> <<signed.timestamp>>
                      [] OTHER -> <<py_or(self.cb_passphrase, "")>>])
        ELSE headers

\* The status codes the gateway answers with.
CbStatuses == {200, 201, 400, 401, 403, 404, 429, 500, 503}

\* What response.json() makes of the body of an answer: a list, null, an
\* object without 'body', an object with 'body' (the gateway envelope) around
\* one of these, or no JSON at all ("invalid": json() raises).
JsonList == [kind |-> "list", has_body |-> FALSE]
JsonNull == [kind |-> "null", has_body |-> FALSE]
JsonObject == [kind |-> "dict", has_body |-> FALSE]
InvalidJson == [kind |-> "invalid", has_body |-> FALSE]
Envelope(body) == [kind |-> "dict", has_body |-> TRUE, body |-> body]
CbPayloads ==
    {JsonList, JsonNull, JsonObject, InvalidJson, Envelope(JsonList), Envelope(JsonNull),
     Envelope(JsonObject), Envelope(Envelope(JsonObject))}

\* requests' Response.raise_for_status(): HTTPError for 4xx and 5xx, with the
\* status code in its message.
raise_for_status(status_code) ==
    IF 400 <= status_code /\ status_code < 500
    THEN [kind |-> "raise", exc |-> "HTTPError", message |-> "Client Error",
          message_status |-> status_code, response_status |-> status_code]
    ELSE IF 500 <= status_code /\ status_code < 600
    THEN [kind |-> "raise", exc |-> "HTTPError", message |-> "Server Error",
          message_status |-> status_code, response_status |-> status_code]
    ELSE [kind |-> "none"]

\* A mutant of unwrap: envelopes are taken off as long as there is one.
RECURSIVE unwrap_all(_)
unwrap_all(data) ==
    IF data.kind = "dict" /\ data.has_body THEN unwrap_all(data.body) ELSE data

\* Lines 144-149: the decoded JSON, out of the gateway envelope if there is one.
unwrap(data) == IF data.kind = "dict" /\ data.has_body THEN data.body ELSE data

\* Line 144, response.json() on a body that is no JSON: requests raises its
\* JSONDecodeError, with the decoder's message.
json_error == [kind |-> "raise", exc |-> "JSONDecodeError", message |-> "Expecting value",
               message_status |-> 0, response_status |-> 0]

RemediationMessage ==
    "Coinbase publisher authentication failed in desktop keychain mode. Configure the Coinbase publisher API key in Seren Desktop Settings and ensure the publisher is enabled."

\* A mutant of call_response: 401 and 403 are raised like every other status.
call_response_raw(self, status_code, data) ==
    LET raised == raise_for_status(status_code)
    IN  IF status_code >= 400 /\ raised.kind = "raise" THEN raised
        ELSE IF data.kind = "invalid" THEN json_error
        ELSE [kind |-> "return", value |-> unwrap(data)]

\* Lines 135-149: what _call makes of the response.
call_response(self, status_code, data) ==
    LET raised == raise_for_status(status_code)
    IN  IF status_code >= 400 /\ self.publisher_authenticated /\ status_code \in {401, 403}
        THEN [kind |-> "raise", exc |-> "HTTPError", message |-> RemediationMessage,
              response_status |-> status_code]
        ELSE IF status_code >= 400 /\ raised.kind = "raise" THEN raised
        ELSE IF data.kind = "invalid" THEN json_error
        ELSE [kind |-> "return", value |-> unwrap(data)]

p_accounts == <<"/", "a", "c", "c", "o", "u", "n", "t", "s">>
p_products == <<"/", "p", "r", "o", "d", "u", "c", "t", "s">>
p_orders == <<"/", "o", "r", "d", "e", "r", "s">>
p_orders_o1 == <<"/", "o", "r", "d", "e", "r", "s", "/", "o", "1">>
k_product_id == <<"p", "r", "o", "d", "u", "c", "t", "_", "i", "d">>
k_status == <<"s", "t", "a", "t", "u", "s">>
v_open == <<"o", "p", "e", "n">>
v_BTC_USD == <<"B", "T", "C", "-", "U", "S", "D">>
v_BTC_slash_USD == <<"B", "T", "C", "/", "U", "S", "D">>
k_type == <<"t", "y", "p", "e">>
v_limit == <<"l", "i", "m", "i", "t">>
k_side == <<"s", "i", "d", "e">>
v_buy == <<"b", "u", "y">>
k_price == <<"p", "r", "i", "c", "e">>
v_price == <<"5", "0", "0", "0", "0", ".", "0", "0">>
k_size == <<"s", "i", "z", "e">>
v_size == <<"0", ".", "0", "1", "0", "0", "0", "0", "0", "0">>
k_post_only == <<"p", "o", "s", "t", "_", "o", "n", "l", "y">>
k_time_in_force == <<"t", "i", "m", "e", "_", "i", "n", "_", "f", "o", "r", "c", "e">>
v_GTC == <<"G", "T", "C">>
ts_a == <<"1", "7", "0", "0", "0", "0", "0", "0", "0", "0", ".", "2", "5">>
ts_b == <<"1", "7", "0", "0", "0", "0", "0", "0", "0", "1", ".", "5">>

\* One request of an operation through _call: method, path, params and body.
CbOperation(op, method, path, params, body) ==
    [op |-> op, method |-> method, path |-> path, params |-> params, body |-> body]

\* Lines 230-234: the params of get_open_orders(product_id)
open_orders_params(product_id) ==
    <<<<k_product_id, Str(product_id)>>, <<k_status, Str(v_open)>>>>

\* Lines 257-265: the body of place_limit_order, price and size as formatted.
limit_order_body ==
    <<<<k_type, Str(v_limit)>>, <<k_side, Str(v_buy)>>, <<k_product_id, Str(v_BTC_USD)>>,
      <<k_price, Str(v_price)>>, <<k_size, Str(v_size)>>, <<k_post_only, J_true>>,
      <<k_time_in_force, Str(v_GTC)>>>>

CbOperations ==
    {CbOperation("get_accounts", m_GET, p_accounts, <<>>, <<>>),
     CbOperation("get_account_balance", m_GET, p_accounts, <<>>, <<>>),
     CbOperation("get_products", m_GET, p_products, <<>>, <<>>),
     CbOperation("get_usd_products", m_GET, p_products, <<>>, <<>>),
     CbOperation("validate_product", m_GET, p_products, <<>>, <<>>),
     CbOperation("get_open_orders", m_GET, p_orders, open_orders_params(v_BTC_USD), <<>>),
     CbOperation("get_open_orders", m_GET, p_orders, open_orders_params(v_BTC_slash_USD), <<>>),
     CbOperation("place_limit_order", m_POST, p_orders, <<>>, limit_order_body),
     CbOperation("cancel_order", m_DELETE, p_orders_o1, <<>>, <<>>)}

\* str(time.time()) as _sign reads it.
Timestamps == {ts_a, ts_b}

\* What requests.request can come back with: a response (its status and what
\* json() makes of its body), or one of its exceptions.
CbResponse(status_code, data) == [kind |-> "response", status_code |-> status_code, data |-> data]

CbWires ==
    {CbResponse(200, data) : data \in CbPayloads}
    \cup {CbResponse(status_code, JsonObject) : status_code \in CbStatuses \ {200}}
    \cup {[kind |-> "ConnectTimeout"], [kind |-> "ReadTimeout"], [kind |-> "ConnectionError"]}

\* One operation of the client: _call builds the request, sends it and
\* classifies the response.  status_code is 0 when no response came.
CbCall ==
    /\ cbPc = "ready"
    /\ \E o \in CbOperations, timestamp \in Timestamps, wire \in CbWires :
         LET body_str == body_str_of(o.body)
             full_path == o.path \o query_string_of(o.params)
             request == [method |-> upper(o.method),
                         path |-> sent_path(o.path, o.params),
                         data |-> body_str,
                         headers |-> call_headers(cbSelf, o.method, full_path, body_str,
                                                  timestamp),
                         timeout |-> 30]
         IN  /\ cbSelf.publisher_authenticated => timestamp = ts_a
             /\ cbLast' = [kind |-> "call", op |-> o.op, request |-> request,
                           time |-> IF cbSelf.publisher_authenticated THEN <<>> ELSE timestamp,
                           wire |-> wire,
                           status_code |-> IF wire.kind = "response" THEN wire.status_code
                                           ELSE 0,
                           outcome |-> IF wire.kind = "response"
                                       THEN call_response(cbSelf, wire.status_code, wire.data)
                                       ELSE [kind |-> "raise", exc |-> wire.kind,
                                             message |-> "requests.request",
                                             message_status |-> 0, response_status |-> 0]]
    /\ UNCHANGED <<cbPc, cbArgs, cbSelf, pmVars, dcVars, rsVars, runVars, lpVars, sgVars, mainVars, xtVars>>

\* How one _call ends for what requests.request came back with.
call_outcome(self, wire) ==
    IF wire.kind = "response" THEN call_response(self, wire.status_code, wire.data)
    ELSE [kind |-> "raise", exc |-> wire.kind, message |-> "requests.request",
          message_status |-> 0, response_status |-> 0]

\* The most entries the listing of open orders holds.
MaxOrders == 2

\* An entry of the listing: an order object with its 'id', or an object
\* without that key.
order_id(i) == <<"o", Ascii[ord("0") + i]>>

Order(i) == [has_id |-> TRUE, id |-> order_id(i)]

NoIdEntry == [has_id |-> FALSE]

RECURSIVE ListingsOf(_)
ListingsOf(n) ==
    IF n = 0 THEN {<<>>}
    ELSE {Append(listing, entry) : listing \in ListingsOf(n - 1), entry \in {Order(n), NoIdEntry}}

OpenOrderListings == UNION {ListingsOf(n) : n \in 0..MaxOrders}

\* What the listing request and a cancel request can come back with.
ListingWires ==
    {CbResponse(200, JsonList), CbResponse(200, JsonNull), CbResponse(200, InvalidJson),
     CbResponse(500, JsonObject), [kind |-> "ReadTimeout"]}

CancelWires ==
    {CbResponse(200, JsonObject), CbResponse(404, JsonObject), CbResponse(200, InvalidJson),
     [kind |-> "ReadTimeout"]}

\* Line 278: the request of cancel_order(order_id)
cancel_request(id) == [method |-> m_DELETE, path |-> p_orders \o <<"/">> \o id]

\* A mutant of cancel_each: the first cancel that fails ends the loop.
RECURSIVE cancel_each_until_failure(_, _, _, _, _)
cancel_each_until_failure(self, open_orders, wires, i, done) ==
    IF i > Len(open_orders) THEN done
    ELSE IF ~open_orders[i].has_id THEN done
    ELSE LET out == call_outcome(self, wires[i])
             sent == Append(done.requests, cancel_request(open_orders[i].id))
         IN  IF out.kind = "return"
             THEN cancel_each_until_failure(self, open_orders, wires, i + 1,
                      [cancelled |-> done.cancelled + 1, requests |-> sent])
             ELSE [cancelled |-> done.cancelled, requests |-> sent]

\* Lines 293-298: the loop over open_orders, from entry i on; wires[i] is
\* what the cancel of entry i comes back with.  order['id'] on an entry
\* without 'id' raises KeyError inside the try block: no request, no count.
RECURSIVE cancel_each(_, _, _, _, _)
cancel_each(self, open_orders, wires, i, done) ==
    IF i > Len(open_orders) THEN done
    ELSE IF ~open_orders[i].has_id
    THEN cancel_each(self, open_orders, wires, i + 1, done)
    ELSE LET out == call_outcome(self, wires[i])
             sent == Append(done.requests, cancel_request(open_orders[i].id))
         IN  cancel_each(self, open_orders, wires, i + 1,
                 [cancelled |-> IF out.kind = "return" THEN done.cancelled + 1
                                ELSE done.cancelled,
                  requests |-> sent])

\* cancel_all_orders, lines 281-299: the listing, then the loop.  A listing
\* that is null is not iterable: TypeError leaves the for statement.
cancel_all_orders(self, product_id, listing, open_orders, wires) ==
    LET listed == call_outcome(self, listing)
        listing_request == [method |-> m_GET,
                            path |-> sent_path(p_orders, open_orders_params(product_id))]
        done == cancel_each(self, open_orders, wires, 1,
                            [cancelled |-> 0, requests |-> <<>>])
    IN  IF listed.kind = "raise"
        THEN [requests |-> <<listing_request>>, outcome |-> listed]
        ELSE IF listed.value.kind # "list"
        THEN [requests |-> <<listing_request>>,
              outcome |-> [kind |-> "raise", exc |-> "TypeError", message |-> "not iterable",
                           message_status |-> 0, response_status |-> 0]]
        ELSE [requests |-> <<listing_request>> \o done.requests,
              outcome |-> [kind |-> "return", value |-> done.cancelled]]

\* What the cancels of a listing can come back with: one wire per entry.
\* An entry without 'id' sends nothing, its wire is not looked at.
CancelWiresOf(open_orders) ==
    {wires \in [1..Len(open_orders) -> CancelWires] :
        \A i \in 1..Len(open_orders) :
            ~open_orders[i].has_id => wires[i] = CbResponse(200, JsonObject)}

\* client.cancel_all_orders(product_id): the listing comes back with a list
\* of entries, or with something else.
CbCancelAll ==
    /\ cbPc = "ready"
    /\ \E listing \in ListingWires :
         \E open_orders \in IF listing = CbResponse(200, JsonList) THEN OpenOrderListings
                             ELSE {<<>>} :
           \E wires \in CancelWiresOf(open_orders) :
             LET ended == cancel_all_orders(cbSelf, v_BTC_USD, listing, open_orders, wires)
             IN  cbLast' = [kind |-> "cancel_all", op |-> "cancel_all_orders",
                            listing |-> listing, open_orders |-> open_orders,
                            wires |-> wires, requests |-> ended.requests,
                            outcome |-> ended.outcome]
    /\ UNCHANGED <<cbPc, cbArgs, cbSelf, pmVars, dcVars, rsVars, runVars, lpVars, sgVars, mainVars, xtVars>>

InitCancel ==
    /\ DiscoverOff
    /\ ResolveOff
    /\ RunOff
    /\ ListOff
    /\ SignOff
    /\ MainOff
    /\ ExtractOff
    /\ PolymarketOff
    /\ InitCoinbase

NextCancel == CbConstruct \/ CbCancelAll

SpecCancel == InitCancel /\ [][NextCancel]_vars

----------------------------------------------------------------------------
(* The Polymarket client (polymarket_client.py, PolymarketClient).         *)

s_404 == <<"4", "0", "4">>
s_401 == <<"4", "0", "1">>
s_403 == <<"4", "0", "3">>
s_500 == <<"5", "0", "0">>
s_polymarket_trading == <<"p", "o", "l", "y", "m", "a", "r", "k", "e", "t", "-", "t", "r", "a", "d", "i", "n", "g">>
s_polymarket_trading_serenai == s_polymarket_trading \o <<"-", "s", "e", "r", "e", "n", "a", "i">>
s_polymarket_data == <<"p", "o", "l", "y", "m", "a", "r", "k", "e", "t", "-", "d", "a", "t", "a">>
s_pm_a == <<"p", "m", "-", "a">>
s_pm_b == <<"p", "m", "-", "b">>
s_pm_c == <<"p", "m", "-", "c">>
env_blank == <<" ", " ">>
env_three == <<" ", "p", "m", "-", "a", ",", " ", "p", "m", "-", "b", " ", ",", ",", "p", "m", "-", "c">>
env_commas == <<",", " ", ",">>

\* s.split(sep) for a one-character sep, from position i on, piece being the
\* characters of the piece that is open.
RECURSIVE split_on(_, _, _, _, _)
split_on(s, sep, i, piece, parts) ==
    IF i > Len(s) THEN Append(parts, piece)
    ELSE IF s[i] = sep THEN split_on(s, sep, i + 1, <<>>, Append(parts, piece))
    ELSE split_on(s, sep, i + 1, Append(piece, s[i]), parts)

split(s, sep) == split_on(s, sep, 1, <<>>, <<>>)

\* [slug.strip() for slug in parts if slug.strip()], from part i on
RECURSIVE stripped_slugs(_, _)
stripped_slugs(parts, i) ==
    IF i > Len(parts) THEN <<>>
    ELSE IF strip(parts[i]) # <<>> THEN <<strip(parts[i])>> \o stripped_slugs(parts, i + 1)
    ELSE stripped_slugs(parts, i + 1)

\* Lines 68-75: the trading aliases, from POLYMARKET_TRADING_PUBLISHERS ("" when unset).
trading_publishers_of(env_value) ==
    LET publishers_env == strip(env_value)
    IN  IF publishers_env # <<>> THEN stripped_slugs(split(publishers_env, ","), 1)
        ELSE <<s_polymarket_trading, s_polymarket_trading_serenai>>

\* A mutant of PolymarketClient_init: the credentials are not checked.
PolymarketClient_init_unchecked(args) ==
    LET poly_api_key == py_or(args.poly_api_key, args.env.POLY_API_KEY)
        poly_passphrase == py_or(args.poly_passphrase, args.env.POLY_PASSPHRASE)
        poly_secret == py_or(args.poly_secret, args.env.POLY_SECRET)
        poly_address == py_or(args.poly_address, args.env.POLY_ADDRESS)
        has_legacy_credentials ==
            truthy(poly_api_key) /\ truthy(poly_passphrase) /\ truthy(poly_address)
        desktop_publisher_auth ==
            IF args.desktop_publisher_auth = "None" THEN ~has_legacy_credentials
            ELSE args.desktop_publisher_auth = "True"
    IN  [kind |-> "ok",
         self |-> [poly_api_key |-> poly_api_key, poly_passphrase |-> poly_passphrase,
                   poly_secret |-> poly_secret, poly_address |-> poly_address,
                   desktop_publisher_auth |-> desktop_publisher_auth,
                   auth_mode |-> IF desktop_publisher_auth THEN "desktop_publisher_auth"
                                 ELSE "direct_polymarket_headers",
                   trading_publishers |->
                       trading_publishers_of(args.env.POLYMARKET_TRADING_PUBLISHERS)]]

\* PolymarketClient.__init__
PolymarketClient_init(args) ==
    LET poly_api_key == py_or(args.poly_api_key, args.env.POLY_API_KEY)
        poly_passphrase == py_or(args.poly_passphrase, args.env.POLY_PASSPHRASE)
        poly_secret == py_or(args.poly_secret, args.env.POLY_SECRET)
        poly_address == py_or(args.poly_address, args.env.POLY_ADDRESS)
        has_legacy_credentials ==
            truthy(poly_api_key) /\ truthy(poly_passphrase) /\ truthy(poly_address)
        desktop_publisher_auth ==
            IF args.desktop_publisher_auth = "None" THEN ~has_legacy_credentials
            ELSE args.desktop_publisher_auth = "True"
    IN  IF ~desktop_publisher_auth /\ ~has_legacy_credentials
        THEN [kind |-> "raise", exc |-> "ValueError",
              error |-> "Polymarket credentials required: POLY_API_KEY, POLY_PASSPHRASE, POLY_ADDRESS"]
        ELSE [kind |-> "ok",
              self |-> [poly_api_key |-> poly_api_key, poly_passphrase |-> poly_passphrase,
                        poly_secret |-> poly_secret, poly_address |-> poly_address,
                        desktop_publisher_auth |-> desktop_publisher_auth,
                        auth_mode |-> IF desktop_publisher_auth THEN "desktop_publisher_auth"
                                      ELSE "direct_polymarket_headers",
                        trading_publishers |->
                            trading_publishers_of(args.env.POLYMARKET_TRADING_PUBLISHERS)]]

\* How a credential reaches the constructor: <<argument, environment variable>>
\* (PyNone: not passed, not set).
CredentialSources(value) ==
    {<<PyNone, PyNone>>, <<value, PyNone>>, <<PyNone, value>>, <<"", "">>}

PmArgs(key, passphrase, secret, address, flag, publishers) ==
    [poly_api_key |-> key[1], poly_passphrase |-> passphrase[1], poly_secret |-> secret[1],
     poly_address |-> address[1], desktop_publisher_auth |-> flag,
     env |-> [POLY_API_KEY |-> key[2], POLY_PASSPHRASE |-> passphrase[2],
              POLY_SECRET |-> secret[2], POLY_ADDRESS |-> address[2],
              POLYMARKET_TRADING_PUBLISHERS |-> publishers]]

\* The constructions: every way of giving the credentials with the default
\* aliases, and the other alias lists with all or none of the credentials.
PmConstructions ==
    {PmArgs(k, p, s, a, flag, <<>>) :
        k \in CredentialSources("k"), p \in CredentialSources("p"),
        s \in {<<PyNone, PyNone>>, <<"s", PyNone>>}, a \in CredentialSources("0xabc"),
        flag \in OptionalBools}
    \cup {PmArgs(<<c, PyNone>>, <<c, PyNone>>, <<c, PyNone>>, <<c, PyNone>>, flag, publishers) :
            c \in {PyNone, "c"}, flag \in OptionalBools,
            publishers \in {env_blank, s_pm_a, env_three, env_commas}}

InitPolymarket ==
    /\ pmPc = "new"
    /\ pmArgs \in PmConstructions
    /\ pmSelf = [kind |-> "none"]
    /\ pmCall = [kind |-> "none"]
    /\ pmRequests = <<>>
    /\ pmOut = [kind |-> "none"]

\* client = PolymarketClient(...)
PmConstruct ==
    /\ pmPc = "new"
    /\ LET made == PolymarketClient_init(pmArgs)
       IN  IF made.kind = "raise"
           THEN /\ pmPc' = "failed"
                /\ pmOut' = made
                /\ UNCHANGED pmSelf
           ELSE /\ pmPc' = "ready"
                /\ pmSelf' = made.self
                /\ UNCHANGED pmOut
    /\ UNCHANGED <<pmArgs, pmCall, pmRequests, cbVars, dcVars, rsVars, runVars, lpVars, sgVars, mainVars, xtVars>>

\* A mutant of _get_auth_headers: the credentials are sent in every mode.
_get_auth_headers_always(self) ==
    [h \in {"POLY_API_KEY", "POLY_PASSPHRASE", "POLY_ADDRESS"} |->
        CASE h = "POLY_API_KEY" -> py_or(self.poly_api_key, "")
          [] h = "POLY_PASSPHRASE" -> py_or(self.poly_passphrase, "")
          [] OTHER -> py_or(self.poly_address, "")]

_get_auth_headers(self) ==
    IF self.desktop_publisher_auth THEN [h \in {} |-> ""]
    ELSE [h \in {"POLY_API_KEY", "POLY_PASSPHRASE", "POLY_ADDRESS"} |->
            CASE h = "POLY_API_KEY" -> py_or(self.poly_api_key, "")
              [] h = "POLY_PASSPHRASE" -> py_or(self.poly_passphrase, "")
              [] OTHER -> py_or(self.poly_address, "")]

\* headers or None, as call_publisher is given it: the names and values sent.
headers_or_None(headers) ==
    IF DOMAIN headers = {} THEN [kind |-> "None", names |-> {}]
    ELSE [kind |-> "dict", names |-> DOMAIN headers, items |-> headers]

e_prefix == <<"P", "u", "b", "l", "i", "s", "h", "e", "r", " ", "c", "a", "l", "l", " ", "f", "a", "i", "l", "e", "d", ":", " ">>
e_dash == <<" ", "-", " ">>
e_not_found == <<"n", "o", "t", " ", "f", "o", "u", "n", "d">>
e_unauthorized == <<"u", "n", "a", "u", "t", "h", "o", "r", "i", "z", "e", "d">>
e_forbidden == <<"f", "o", "r", "b", "i", "d", "d", "e", "n">>
e_internal == <<"i", "n", "t", "e", "r", "n", "a", "l">>
e_upstream_404 == <<"u", "p", "s", "t", "r", "e", "a", "m", " ", "4", "0", "4">>
e_authentication_failed == <<"d", "e", "s", "k", "t", "o", "p", " ", "p", "u", "b", "l", "i", "s", "h", "e", "r", " ", "a", "u", "t", "h", "e", "n", "t", "i", "c", "a", "t", "i", "o", "n", " ", "f", "a", "i", "l", "e", "d">>
e_configure_credentials == <<"C", "o", "n", "f", "i", "g", "u", "r", "e", " ", "P", "o", "l", "y", "m", "a", "r", "k", "e", "t", " ", "p", "u", "b", "l", "i", "s", "h", "e", "r", " ", "c", "r", "e", "d", "e", "n", "t", "i", "a", "l", "s">>
e_network == <<"C", "o", "n", "n", "e", "c", "t", "i", "o", "n", " ", "r", "e", "f", "u", "s", "e", "d">>

\* str(exc) of a failed call_publisher: the HTTP status and the remote error body.
publisher_call_failed(status, body) == e_prefix \o status \o e_dash \o body

\* What one call_publisher can do: return the payload, or raise; a raise is
\* given by the HTTP status answered ("" for a failure without an answer)
\* and the text of the exception.
Failure(status, message) == [kind |-> "raise", status |-> status, message |-> message]

PmOutcomes ==
    {[kind |-> "ok"],
     Failure(s_404, publisher_call_failed(s_404, e_not_found)),
     Failure(s_401, publisher_call_failed(s_401, e_unauthorized)),
     Failure(s_403, publisher_call_failed(s_403, e_forbidden)),
     Failure(s_500, publisher_call_failed(s_500, e_internal)),
     Failure(s_500, publisher_call_failed(s_500, e_upstream_404)),
     Failure(<<>>, e_network)}

\* "Polymarket desktop publisher authentication failed. Configure Polymarket
\* publisher credentials in Seren Desktop and ensure the publisher is enabled."
HelpfulMessage ==
    <<"P", "o", "l", "y", "m", "a", "r", "k", "e", "t", " ", "d", "e", "s", "k", "t", "o", "p", " ", "p", "u", "b", "l", "i", "s", "h", "e", "r", " ", "a", "u", "t", "h", "e", "n", "t", "i", "c", "a", "t", "i", "o", "n", " ", "f", "a", "i", "l", "e", "d", ".", " ", "C", "o", "n", "f", "i", "g", "u", "r", "e", " ", "P", "o", "l", "y", "m", "a", "r", "k", "e", "t", " ", "p", "u", "b", "l", "i", "s", "h", "e", "r", " ", "c", "r", "e", "d", "e", "n", "t", "i", "a", "l", "s", " ", "i", "n", " ", "S", "e", "r", "e", "n", " ", "D", "e", "s", "k", "t", "o", "p", " ", "a", "n", "d", " ", "e", "n", "s", "u", "r", "e", " ", "t", "h", "e", " ", "p", "u", "b", "l", "i", "s", "h", "e", "r", " ", "i", "s", " ", "e", "n", "a", "b", "l", "e", "d", ".">>

\* "No Polymarket trading publisher configured"
NoPublisherMessage ==
    <<"N", "o", " ", "P", "o", "l", "y", "m", "a", "r", "k", "e", "t", " ", "t", "r", "a", "d", "i", "n", "g", " ", "p", "u", "b", "l", "i", "s", "h", "e", "r", " ", "c", "o", "n", "f", "i", "g", "u", "r", "e", "d">>

\* A mutant of attempt_failed: no alias but the first is ever tried.
attempt_failed_no_fallback(self, idx, failure) ==
    IF self.desktop_publisher_auth
        /\ (contains(failure.message, s_401) \/ contains(failure.message, s_403))
    THEN [kind |-> "raise", exc |-> "Exception", message |-> HelpfulMessage, cause |-> failure]
    ELSE [kind |-> "raise", exc |-> "Exception", message |-> failure.message, cause |-> failure]

\* A mutant of attempt_failed: 401 and 403 move on to the next alias in
\* desktop mode only.
attempt_failed_auth_by_mode(self, idx, failure) ==
    LET message == failure.message
        auth == contains(message, s_401) \/ contains(message, s_403)
    IN  IF contains(message, s_404) /\ idx < Len(self.trading_publishers) - 1
        THEN [kind |-> "continue"]
        ELSE IF self.desktop_publisher_auth /\ auth /\ idx < Len(self.trading_publishers) - 1
        THEN [kind |-> "continue"]
        ELSE IF self.desktop_publisher_auth /\ auth
        THEN [kind |-> "raise", exc |-> "Exception", message |-> HelpfulMessage, cause |-> failure]
        ELSE [kind |-> "raise", exc |-> "Exception", message |-> message, cause |-> failure]

\* A mutant of attempt_failed: the remote error is raised as it is in every mode.
attempt_failed_raw(self, idx, failure) ==
    LET message == failure.message
        auth == contains(message, s_401) \/ contains(message, s_403)
    IN  IF contains(message, s_404) /\ idx < Len(self.trading_publishers) - 1
        THEN [kind |-> "continue"]
        ELSE IF auth /\ idx < Len(self.trading_publishers) - 1
        THEN [kind |-> "continue"]
        ELSE [kind |-> "raise", exc |-> "Exception", message |-> message, cause |-> failure]

\* Lines 104-119: the except clause, for the attempt at index idx (from 0).
attempt_failed(self, idx, failure) ==
    LET message == failure.message
        auth == contains(message, s_401) \/ contains(message, s_403)
    IN  IF contains(message, s_404) /\ idx < Len(self.trading_publishers) - 1
        THEN [kind |-> "continue"]
        ELSE IF auth /\ idx < Len(self.trading_publishers) - 1
        THEN [kind |-> "continue"]
        ELSE IF self.desktop_publisher_auth /\ auth
        THEN [kind |-> "raise", exc |-> "Exception", message |-> HelpfulMessage, cause |-> failure]
        ELSE [kind |-> "raise", exc |-> "Exception", message |-> message, cause |-> failure]

\* The operations that go through _call_trading: method, path and whether a
\* body is passed.
PmOperation(op, method, path, body) == [op |-> op, method |-> method, path |-> path, body |-> body]

PmOperations ==
    {PmOperation("get_price", "GET", "/price", "token_id, side"),
     PmOperation("get_midpoint", "GET", "/midpoint", "token_id"),
     PmOperation("get_positions", "GET", "/positions", "None"),
     PmOperation("get_open_orders", "GET", "/orders", "None"),
     PmOperation("place_order", "POST", "/order", "order_data"),
     PmOperation("cancel_order", "DELETE", "/order", "orderID"),
     PmOperation("get_balance", "GET", "/balance", "None")}

\* What call_publisher returns for GET /balance, as a JSON value: a dict is
\* [t |-> "dict", body, balance] with the values under its keys 'body' and
\* 'balance' (J_missing: no such key); every other operation's payload is
\* not looked into.
BalanceDoc(balance) == [t |-> "dict", body |-> J_missing, balance |-> balance]

BalanceEnvelope(body) == [t |-> "dict", body |-> body, balance |-> J_missing]

OpaquePayload == [t |-> "opaque"]

t_40 == <<"4", "0">>

BalancePayloads ==
    {BalanceDoc(v) : v \in {Num(25), Num(0), Str(t_40), Str(t_abc), J_null, J_missing,
                            J_true, J_other}}
    \cup {BalanceEnvelope(v) : v \in {BalanceDoc(Num(25)), BalanceDoc(Str(t_abc)), Num(7),
                                      Str(t_40), J_null, J_true}}
    \cup {J_other, J_null}

PmPayloads(op) == IF op = "get_balance" THEN BalancePayloads ELSE {OpaquePayload}

\* The number a text of decimal digits denotes.
RECURSIVE digits_value(_)
digits_value(text) ==
    IF text = <<>> THEN 0
    ELSE 10 * digits_value(SubSeq(text, 1, Len(text) - 1)) + (ord(text[Len(text)]) - ord("0"))

\* float(x): the number, or the exception the conversion raises.  A str is
\* read after stripping; here a text of digits is a number and any other
\* text is none.
py_float(x) ==
    CASE x.t \in {"num", "float"} -> [kind |-> "ok", v |-> x.v]
      [] x.t = "bool" -> [kind |-> "ok", v |-> IF x.v THEN 1 ELSE 0]
      [] x.t = "str" ->
            LET text == strip(x.v)
            IN  IF text # <<>> /\ \A k \in 1..Len(text) : text[k] \in Digits
                THEN [kind |-> "ok", v |-> digits_value(text)]
                ELSE [kind |-> "ValueError"]
      [] OTHER -> [kind |-> "TypeError"]

\* Lines 356-364 of get_balance: what the try block makes of the response,
\* a number or the exception it meets.
parse_balance(response) ==
    IF response.t # "dict" THEN [kind |-> "AttributeError"]
    ELSE LET balance_data == dict_get(response.body, response)
         IN  IF balance_data.t = "dict"
             THEN py_float(dict_get(balance_data.balance, Float(0)))
             ELSE IF balance_data.t \in {"num", "float", "bool"}
             THEN py_float(balance_data)
             ELSE [kind |-> "ok", v |-> 0]

\* A mutant of operation_result: get_balance lets the exceptions through.
operation_result_raising(op, out) ==
    IF out.kind = "raise" THEN out
    ELSE IF op = "get_balance"
    THEN LET parsed == parse_balance(out.payload)
         IN  IF parsed.kind = "ok" THEN [kind |-> "return", value |-> parsed.v]
             ELSE [kind |-> "raise", exc |-> parsed.kind, message |-> <<>>, cause |-> out]
    ELSE [kind |-> "return", value |-> "payload"]

\* How the operation ends when _call_trading ends with out: get_balance
\* (lines 349-369) parses the payload and turns every exception into 0.0, the
\* others let the exception through and return the payload.
operation_result(op, out) ==
    IF op = "get_balance"
    THEN IF out.kind = "raise" THEN [kind |-> "return", value |-> 0]
         ELSE LET parsed == parse_balance(out.payload)
              IN  [kind |-> "return", value |-> IF parsed.kind = "ok" THEN parsed.v ELSE 0]
    ELSE IF out.kind = "raise" THEN out
    ELSE [kind |-> "return", value |-> "payload"]

\* An operation is called: _call_trading is entered (lines 93-95), and left at
\* once when no alias is configured (lines 121-123).
PmInvoke ==
    /\ pmPc = "ready"
    /\ \E o \in PmOperations :
         LET none == [kind |-> "raise", exc |-> "RuntimeError",
                      message |-> NoPublisherMessage]
         IN  /\ pmCall' = [op |-> o.op, method |-> o.method, path |-> o.path, body |-> o.body,
                           headers |-> _get_auth_headers(pmSelf), idx |-> 0,
                           last_error |-> [kind |-> "None"]]
             /\ pmRequests' = <<>>
             /\ IF pmSelf.trading_publishers = <<>>
                THEN /\ pmOut' = [kind |-> "ended", call_trading |-> none,
                                  operation |-> operation_result(o.op, none)]
                     /\ UNCHANGED pmPc
                ELSE /\ pmOut' = [kind |-> "none"]
                     /\ pmPc' = "calling"
    /\ UNCHANGED <<pmArgs, pmSelf, cbVars, dcVars, rsVars, runVars, lpVars, sgVars, mainVars, xtVars>>

\* A mutant of alias_at: every attempt goes to the first alias.
alias_first(self, idx) == self.trading_publishers[1]

\* Line 96: the alias enumerate() gives at index idx (from 0).
alias_at(self, idx) == self.trading_publishers[idx + 1]

\* One turn of the loop of _call_trading: the alias at idx is called, and
\* answers with a payload or fails.
PmAttempt ==
    /\ pmPc = "calling"
    /\ \E outcome \in PmOutcomes, payload \in PmPayloads(pmCall.op) :
         LET publisher == alias_at(pmSelf, pmCall.idx)
             handled == attempt_failed(pmSelf, pmCall.idx, outcome)
             returned == [kind |-> "return", publisher |-> publisher, payload |-> payload]
         IN  /\ outcome.kind # "ok" => payload = CHOOSE first \in PmPayloads(pmCall.op) : TRUE
             /\ pmRequests' = Append(pmRequests,
                    [publisher |-> publisher, method |-> pmCall.method, path |-> pmCall.path,
                     headers |-> headers_or_None(pmCall.headers), body |-> pmCall.body,
                     outcome |-> outcome])
             /\ IF outcome.kind = "ok"
                THEN /\ pmOut' = [kind |-> "ended", call_trading |-> returned,
                                  operation |-> operation_result(pmCall.op, returned)]
                     /\ pmPc' = "ready"
                     /\ UNCHANGED pmCall
                ELSE IF handled.kind = "continue"
                THEN /\ pmCall' = [pmCall EXCEPT !.idx = pmCall.idx + 1, !.last_error = outcome]
                     /\ UNCHANGED <<pmPc, pmOut>>
                ELSE /\ pmOut' = [kind |-> "ended", call_trading |-> handled,
                                  operation |-> operation_result(pmCall.op, handled)]
                     /\ pmPc' = "ready"
                     /\ UNCHANGED pmCall
    /\ UNCHANGED <<pmArgs, pmSelf, cbVars, dcVars, rsVars, runVars, lpVars, sgVars, mainVars, xtVars>>

\* get_markets (lines 147-154): one call of polymarket-data, without headers.
PmGetMarkets ==
    /\ pmPc = "ready"
    /\ \E outcome \in PmOutcomes :
         LET out == IF outcome.kind = "ok" THEN [kind |-> "return", publisher |-> s_polymarket_data]
                    ELSE [kind |-> "raise", exc |-> "Exception",
                          message |-> outcome.message, cause |-> outcome]
         IN  /\ pmRequests' = <<[publisher |-> s_polymarket_data, method |-> "GET",
                                 path |-> "/markets?limit=500&active=true&closed=false",
                                 headers |-> [kind |-> "None", names |-> {}], body |-> "None",
                                 outcome |-> outcome]>>
             /\ pmCall' = [op |-> "get_markets"]
             /\ pmOut' = [kind |-> "ended", operation |-> out]
    /\ UNCHANGED <<pmPc, pmArgs, pmSelf, cbVars, dcVars, rsVars, runVars, lpVars, sgVars, mainVars, xtVars>>

InitClients ==
    /\ DiscoverOff
    /\ ResolveOff
    /\ RunOff
    /\ ListOff
    /\ SignOff
    /\ MainOff
    /\ ExtractOff
    /\ \/ InitCoinbase /\ PolymarketOff
       \/ InitPolymarket /\ CoinbaseOff

NextClients == CbConstruct \/ CbCall \/ PmConstruct \/ PmInvoke \/ PmAttempt \/ PmGetMarkets

SpecClients == InitClients /\ [][NextClients]_vars

\* A credential is present when a non-empty value is given for it.
Present(value) == value \notin {PyNone, ""}

\* The mode the flag and the presence of the required credentials call for.
ModeFor(flag, all_present) ==
    IF flag = "True" THEN "platform"
    ELSE IF flag = "False" THEN "direct"
    ELSE IF all_present THEN "direct" ELSE "platform"

CbAllPresent ==
    Present(cbArgs.cb_access_key) /\ Present(cbArgs.cb_secret) /\ Present(cbArgs.cb_passphrase)

\* The Polymarket credentials come from the argument or, failing it, the environment.
PmAllPresent ==
    /\ Present(pmArgs.poly_api_key) \/ Present(pmArgs.env.POLY_API_KEY)
    /\ Present(pmArgs.poly_passphrase) \/ Present(pmArgs.env.POLY_PASSPHRASE)
    /\ Present(pmArgs.poly_address) \/ Present(pmArgs.env.POLY_ADDRESS)

\* C2: for every flag (unset, platform, direct) and every presence of the
\* credentials, the Coinbase and the Polymarket constructors fail with
\* ValueError exactly when the mode called for is direct and a required
\* credential is missing, and otherwise build a client in the mode called for:
\* the flag's when it is set, else direct iff all required credentials are
\* present.  Nothing else given to the constructor changes the outcome.
C2_AuthModeResolution ==
    /\ cbPc \in {"ready", "failed"} =>
          LET mode == ModeFor(cbArgs.publisher_authenticated, CbAllPresent)
          IN  IF mode = "direct" /\ ~CbAllPresent
              THEN cbPc = "failed" /\ cbLast.kind = "raise" /\ cbLast.exc = "ValueError"
              ELSE /\ cbPc = "ready"
                   /\ cbSelf.publisher_authenticated = (mode = "platform")
                   /\ cbSelf.auth_mode = IF mode = "platform" THEN "publisher_authenticated"
                                         ELSE "direct_coinbase_headers"
    /\ pmPc \in {"ready", "calling", "failed"} =>
          LET mode == ModeFor(pmArgs.desktop_publisher_auth, PmAllPresent)
          IN  IF mode = "direct" /\ ~PmAllPresent
              THEN pmPc = "failed" /\ pmOut.kind = "raise" /\ pmOut.exc = "ValueError"
              ELSE /\ pmPc # "failed"
                   /\ pmSelf.desktop_publisher_auth = (mode = "platform")
                   /\ pmSelf.auth_mode = IF mode = "platform" THEN "desktop_publisher_auth"
                                         ELSE "direct_polymarket_headers"

\* C2 witness: the Coinbase constructor has failed for the flag set to direct
\* with the secret missing and the other two credentials present.
C2_Witness ==
    /\ cbPc = "failed"
    /\ cbArgs.publisher_authenticated = "False"
    /\ cbArgs.cb_access_key = "cb-key"
    /\ cbArgs.cb_secret = PyNone
    /\ cbArgs.cb_passphrase = "cb-pass"

\* The Polymarket constructor has chosen direct mode by itself, from
\* credentials of which one came from the environment.
C2_AutoDirectReached ==
    /\ pmPc = "ready"
    /\ pmArgs.desktop_publisher_auth = "None"
    /\ pmArgs.poly_api_key = PyNone
    /\ pmSelf.auth_mode = "direct_polymarket_headers"

VenueHeaders ==
    {"CB-ACCESS-KEY", "CB-ACCESS-SIGN", "CB-ACCESS-TIMESTAMP", "CB-ACCESS-PASSPHRASE",
     "POLY_API_KEY", "POLY_PASSPHRASE", "POLY_ADDRESS"}

\* C3: in platform mode the request of every Coinbase operation has exactly
\* the headers Authorization (the bearer gateway key) and Content-Type, and
\* every Polymarket request is sent without headers, _get_auth_headers being
\* empty: no CB-ACCESS-* and no POLY_* header, whatever credentials the
\* constructor was given.
C3_PlatformSendsNoVenueSecret ==
    /\ (cbLast.kind = "call" /\ cbSelf.publisher_authenticated) =>
          /\ DOMAIN cbLast.request.headers = {"Authorization", "Content-Type"}
          /\ cbLast.request.headers["Authorization"] = <<"Bearer", cbArgs.seren_api_key>>
          /\ cbLast.request.headers["Content-Type"] = <<"application/json">>
    /\ (pmPc \in {"ready", "calling"} /\ pmSelf.desktop_publisher_auth) =>
          /\ DOMAIN _get_auth_headers(pmSelf) = {}
          /\ \A i \in 1..Len(pmRequests) :
                /\ pmRequests[i].headers.kind = "None"
                /\ pmRequests[i].headers.names \cap VenueHeaders = {}

\* C3 witness: a Polymarket client given all credentials and the flag set to
\* platform has sent a trading request.
C3_Witness ==
    /\ pmPc = "ready"
    /\ pmArgs.desktop_publisher_auth = "True"
    /\ PmAllPresent
    /\ pmArgs.poly_secret = "s"
    /\ Len(pmRequests) > 0
    /\ pmRequests[1].publisher = s_polymarket_trading

\* A Coinbase client given all credentials and the flag set to platform has
\* made a call.
C3_CoinbaseReached ==
    /\ cbLast.kind = "call"
    /\ cbArgs.publisher_authenticated = "True"
    /\ CbAllPresent

\* A constructed client in direct mode holds its three required credentials.
DirectHasCredentials ==
    /\ (cbPc = "ready" /\ cbSelf.auth_mode = "direct_coinbase_headers") =>
          /\ ~cbSelf.publisher_authenticated
          /\ Present(cbSelf.cb_access_key)
          /\ Present(cbSelf.cb_secret)
          /\ Present(cbSelf.cb_passphrase)
          /\ cbLast.kind = "call" =>
                /\ cbLast.request.headers["CB-ACCESS-KEY"] = <<cbSelf.cb_access_key>>
                /\ cbLast.request.headers["CB-ACCESS-PASSPHRASE"] = <<cbSelf.cb_passphrase>>
    /\ (pmPc \in {"ready", "calling"} /\ pmSelf.auth_mode = "direct_polymarket_headers") =>
          /\ ~pmSelf.desktop_publisher_auth
          /\ Present(pmSelf.poly_api_key)
          /\ Present(pmSelf.poly_passphrase)
          /\ Present(pmSelf.poly_address)

\* No step of a constructed client changes its attributes.
AttributesKept ==
    /\ cbPc = "ready" => (cbPc' = "ready" /\ cbSelf' = cbSelf)
    /\ pmPc \in {"ready", "calling"} => (pmPc' \in {"ready", "calling"} /\ pmSelf' = pmSelf)

\* C4: at every moment of a constructed client's life, direct mode comes with
\* the three required credentials present (non-empty), and no operation
\* changes the mode or the credentials (or any other attribute) of the client.
C4_DirectModeHasCredentials == []DirectHasCredentials /\ [][AttributesKept]_vars

\* C4 witness: a Coinbase client in direct mode has made a call.
C4_Witness ==
    /\ cbPc = "ready"
    /\ cbSelf.auth_mode = "direct_coinbase_headers"
    /\ cbLast.kind = "call"
    /\ cbLast.op = "place_limit_order"

\* A Polymarket client in direct mode is at its second alias.
C4_PolymarketReached ==
    /\ pmPc = "calling"
    /\ pmSelf.auth_mode = "direct_polymarket_headers"
    /\ pmCall.idx = 1

\* The requests pmRequests holds are those of one _call_trading.
InCallTrading == pmRequests # <<>> /\ pmCall.op # "get_markets"

\* Request i + 1 is request i sent to the next alias.
NextAliasTried(i) ==
    \/ /\ i = Len(pmRequests)
       /\ pmPc = "calling"
       /\ pmCall.idx = i
    \/ /\ i < Len(pmRequests)
       /\ pmRequests[i + 1].publisher = pmSelf.trading_publishers[i + 1]
       /\ pmRequests[i + 1].method = pmRequests[i].method
       /\ pmRequests[i + 1].path = pmRequests[i].path
       /\ pmRequests[i + 1].body = pmRequests[i].body
       /\ pmRequests[i + 1].headers = pmRequests[i].headers

\* _call_trading has ended as its last request ended.
EndedAsLastRequest ==
    LET last == pmRequests[Len(pmRequests)]
    IN  (pmPc = "ready" /\ last.outcome.kind = "ok") =>
            /\ pmOut.kind = "ended"
            /\ pmOut.call_trading.kind = "return"
            /\ pmOut.call_trading.publisher = last.publisher

\* C5: in a _call_trading, a 404 from an alias that is not the last one is
\* followed by the same method, path, body and headers sent to the next alias
\* of the list, request i going to alias i; and when an alias answers, the
\* call returns that alias's result.
C5_NotFoundFallsBack ==
    InCallTrading =>
        /\ \A i \in 1..Len(pmRequests) :
              /\ pmRequests[i].publisher = pmSelf.trading_publishers[i]
              /\ (pmRequests[i].outcome.kind = "raise"
                    /\ pmRequests[i].outcome.status = s_404
                    /\ i < Len(pmSelf.trading_publishers)) => NextAliasTried(i)
        /\ EndedAsLastRequest

\* C5 witness: with the two default aliases, the first answered 404 and the
\* call returned the second one's result.
C5_Witness ==
    /\ pmPc = "ready"
    /\ InCallTrading
    /\ pmSelf.trading_publishers = <<s_polymarket_trading, s_polymarket_trading_serenai>>
    /\ Len(pmRequests) = 2
    /\ pmRequests[1].outcome.kind = "raise"
    /\ pmRequests[1].outcome.status = s_404
    /\ pmRequests[2].outcome.kind = "ok"
    /\ pmOut.call_trading.kind = "return"
    /\ pmOut.call_trading.publisher = s_polymarket_trading_serenai

\* Request i failed, and neither with 404 nor with 401 or 403.
OtherFailure(i) ==
    /\ pmRequests[i].outcome.kind = "raise"
    /\ pmRequests[i].outcome.status \notin {s_404, s_401, s_403}

\* C6 (as claimed): in a _call_trading, a failure that is neither a 404 nor a
\* 401 or 403 (no answer, HTTP 500, anything else) ends the call: it is the
\* last request, the call has raised it, and no alias is tried after it,
\* whatever the text of the remote error body.
C6_OtherFailurePropagates ==
    InCallTrading =>
        \A i \in 1..Len(pmRequests) :
            OtherFailure(i) =>
                /\ i = Len(pmRequests)
                /\ pmPc = "ready"
                /\ pmOut.call_trading.kind = "raise"
                /\ pmOut.call_trading.message = pmRequests[i].outcome.message

\* C6 witness of the divergence: an HTTP 500 whose error body has the
\* characters 404 in it came from the first alias, and the second alias was
\* called after it.
C6_Witness ==
    /\ InCallTrading
    /\ Len(pmRequests) = 2
    /\ pmRequests[1].outcome.kind = "raise"
    /\ pmRequests[1].outcome.status = s_500
    /\ pmRequests[2].publisher = s_polymarket_trading_serenai

\* C7 (as claimed): a 401 from an alias that is not the last one is followed
\* by the next alias in platform mode, and in direct mode ends the call: no
\* alias is tried after it and the error is raised.
C7_AuthFallbackByMode ==
    InCallTrading =>
        \A i \in 1..Len(pmRequests) :
            (pmRequests[i].outcome.kind = "raise"
                /\ pmRequests[i].outcome.status = s_401
                /\ i < Len(pmSelf.trading_publishers)) =>
                    IF pmSelf.desktop_publisher_auth
                    THEN NextAliasTried(i)
                    ELSE /\ i = Len(pmRequests)
                         /\ pmPc = "ready"
                         /\ pmOut.call_trading.kind = "raise"

\* C7 witness of the divergence: a client in direct mode got 401 from its
\* first alias and called the second one, with the credentials in the headers.
C7_Witness ==
    /\ InCallTrading
    /\ ~pmSelf.desktop_publisher_auth
    /\ Len(pmRequests) = 2
    /\ pmRequests[1].outcome.kind = "raise"
    /\ pmRequests[1].outcome.status = s_401
    /\ pmRequests[2].publisher = s_polymarket_trading_serenai
    /\ pmRequests[2].headers.names = {"POLY_API_KEY", "POLY_PASSPHRASE", "POLY_ADDRESS"}

C8_DirectReached ==
    /\ cbLast.kind = "call"
    /\ ~cbSelf.publisher_authenticated
    /\ cbLast.status_code = 401
    /\ cbLast.outcome.kind = "raise"
    /\ cbLast.outcome.message_status = 401


----------------------------------------------------------------------------
(* The capability check of a run (check_rpc_capability).                   *)

CatalogRequest == Request(<<>>, m_GET, p_publishers)

\* The requests of the run that went to a publisher.  Until the position sync
\* sends its own request these are the probes of the capability check.
ProbeRequests == SelectSeq(runRequests, LAMBDA r : r # CatalogRequest)

ProbeRequest(probe) ==
    Request(runLoc.rpc_capability.publisher, probe.method, probe.path)

\* While the loop runs, the probes attempted are the first probes of the list,
\* in the order of the list, each sent to the resolved publisher, and each of
\* them failed with PublisherError; once the check has answered 'ok', the
\* probe it reports is the last one attempted.
ProbeOrderKept ==
    /\ runPc = "probe" =>
          /\ Len(runLoc.errors) < Len(runLoc.probes)
          /\ ProbeRequests = [i \in 1..Len(runLoc.errors) |-> ProbeRequest(runLoc.probes[i])]
          /\ runLoc.errors = SubSeq(runLoc.probes, 1, Len(runLoc.errors))
    /\ (runPc = "position_sync" /\ runLoc.rpc_capability.status = "ok") =>
          /\ ProbeRequests # <<>>
          /\ ProbeRequests[Len(ProbeRequests)] = ProbeRequest(runLoc.rpc_capability.probe)

\* One turn of the loop attempts the probe that follows the failed ones; when
\* the check answers 'ok' it reports that probe, and when the loop goes on the
\* probe is among the failed ones; after the check no probe is attempted.
ProbeTurnInOrder ==
    /\ runPc = "probe" =>
          LET probe == runLoc.probes[Len(runLoc.errors) + 1]
          IN  /\ runRequests' = Append(runRequests, ProbeRequest(probe))
              /\ runPc' = "probe" => runLoc'.errors = Append(runLoc.errors, probe)
              /\ runPc' = "position_sync" =>
                    /\ runLoc'.rpc_capability.status \in {"ok", "warning"}
                    /\ runLoc'.rpc_capability.status = "ok" =>
                          /\ runLoc'.rpc_capability.probe = probe
                          /\ runLoc'.rpc_capability.publisher = runLoc.rpc_capability.publisher
    /\ runPc \in {"position_sync", "gauges", "preflight", "live_trade", "done"} =>
          runPc' # "probe"

\* C11: the probes of the capability check are attempted strictly in the
\* configured order against the one resolved publisher; a probe is attempted
\* only if every earlier probe failed with PublisherError; the check answers
\* 'ok' at the first probe that completes without PublisherError, reporting
\* that probe's method and path, and no probe is attempted after it.
C11_ProbesInConfiguredOrder == []ProbeOrderKept /\ [][ProbeTurnInOrder]_vars

\* C11 witness: the first default probe failed, the second (POST /) completed,
\* and the check answered 'ok' reporting it after two requests.
C11_Witness ==
    /\ runPc = "position_sync"
    /\ runLoc.rpc_capability.status = "ok"
    /\ runLoc.rpc_capability.probe = Probe(m_POST, p_root)
    /\ Len(ProbeRequests) = 2
    /\ ProbeRequests[1].path = p_health


\* check_rpc_capability raised because every probe failed.
CheckFailed ==
    /\ runPc = "done"
    /\ runResult.kind = "raise"
    /\ runResult.error = "RPC capability check failed"

\* The aggregated message names every probe of the list and holds one error
\* for each of them, in the order of the list.
Aggregated(attempted, errors) ==
    /\ attempted # <<>>
    /\ Len(errors) = Len(attempted)
    /\ \A i \in 1..Len(attempted) : errors[i] = attempted[i]

\* C12: when every configured probe failed with PublisherError and required is
\* true (the default), the check raises ConfigError with one error per
\* attempted probe and the run stops, the failed probes being its last
\* requests; when required is false the check answers with status 'warning'
\* and the same aggregated errors, and the run goes on to the position sync.
C12_AllProbesFailed ==
    /\ CheckFailed =>
          /\ runResult.exc = "ConfigError"
          /\ runLoc.required = TRUE
          /\ runResult.attempted = runLoc.probes
          /\ Aggregated(runResult.attempted, runResult.errors)
          /\ ProbeRequests = [i \in 1..Len(runLoc.probes) |-> ProbeRequest(runLoc.probes[i])]
    /\ (runPc \notin {"start", "signer", "rpc_capability", "rpc_publisher", "probe"}
            /\ runLoc.rpc_capability # Unset
            /\ runLoc.rpc_capability.status = "warning") =>
          /\ runLoc.rpc_capability.required = FALSE
          /\ Aggregated(runLoc.rpc_capability.attempted, runLoc.rpc_capability.errors)
          /\ Len(ProbeRequests) >= Len(runLoc.rpc_capability.attempted)
          /\ ~CheckFailed
    /\ (runPc = "position_sync" /\ runLoc.rpc_capability.status = "warning") =>
          ProbeRequests = [i \in 1..Len(runLoc.rpc_capability.attempted) |->
                               ProbeRequest(runLoc.rpc_capability.attempted[i])]

\* C12 witness: rpc_capability is absent from the config (required is true by
\* default), the three default probes failed and the run stopped with
\* ConfigError after exactly these three requests.
C12_Witness ==
    /\ CheckFailed
    /\ runResult.exc = "ConfigError"
    /\ runResult.attempted = DEFAULT_RPC_PROBES
    /\ Len(runResult.errors) = 3
    /\ Len(ProbeRequests) = 3

\* A run whose check answered 'warning' (required false) went on to its end.
C12_WarningRunCompleted ==
    /\ runPc = "done"
    /\ runResult.kind = "return"
    /\ runResult.rpc_capability.status = "warning"
    /\ runResult.rpc_capability.required = FALSE
    /\ Len(runResult.rpc_capability.errors) = 3


----------------------------------------------------------------------------
(* The gateway transport of the Curve agent (SerenPublisherClient).        *)
(* What happens to a request on the wire is one of: an HTTP error status   *)
(* with its body text; URLError (the connection is refused, or times out   *)
(* while it is set up or the request is sent); a socket timeout while the  *)
(* response is awaited or read, which urllib raises as it is; a 2xx        *)
(* response whose bytes are no UTF-8; a 2xx response with a text that is   *)
(* no JSON; a 2xx response with a JSON document, given decoded.            *)

HttpError(code, details) == [kind |-> "HTTPError", code |-> code, details |-> details]
UrlError(reason) == [kind |-> "URLError", reason |-> reason]
ReadTimeout == [kind |-> "socket.timeout"]
Undecodable == [kind |-> "bytes"]
Text(raw) == [kind |-> "text", raw |-> raw]
Json(parsed) == [kind |-> "json", parsed |-> parsed]

t_details == <<"d", "o", "w", "n">>
t_html == <<"<", "h", "t", "m", "l", ">">>
t_timed_out == <<"t", "i", "m", "e", "d", " ", "o", "u", "t">>

\* A text of 201 characters that is no JSON.
t_long == [i \in 1..201 |-> IF i = 201 THEN "!" ELSE "x"]

\* raw[:n]
prefix(raw, n) == SubSeq(raw, 1, IF Len(raw) < n THEN Len(raw) ELSE n)

\* _request, lines 98-130: what it returns, or the exception that leaves it
\* with the parts of its message.
_request(method, path, wire) ==
    LET normalized_path == IF startswith(path, p_root) THEN path ELSE p_root \o path
    IN  CASE wire.kind = "HTTPError" ->
               Raise("PublisherError", [note |-> "HTTP", code |-> wire.code,
                                        path |-> normalized_path, text |-> wire.details])
          [] wire.kind = "URLError" ->
               Raise("PublisherError", [note |-> "Connection failed on", code |-> 0,
                                        path |-> normalized_path, text |-> wire.reason])
          [] wire.kind = "socket.timeout" ->
               Raise("TimeoutError", [note |-> "timed out", code |-> 0,
                                      path |-> normalized_path, text |-> <<>>])
          [] wire.kind = "bytes" ->
               Raise("UnicodeDecodeError", [note |-> "decode", code |-> 0,
                                            path |-> normalized_path, text |-> <<>>])
          [] wire.kind = "text" ->
               Raise("PublisherError", [note |-> "Invalid JSON from", code |-> 0,
                                        path |-> normalized_path,
                                        text |-> prefix(wire.raw, 200)])
          [] wire.kind = "json" /\ wire.parsed.kind # "dict" ->
               Raise("PublisherError", [note |-> "was not an object", code |-> 0,
                                        path |-> normalized_path, text |-> <<>>])
          [] OTHER -> [kind |-> "return", value |-> wire.parsed]


----------------------------------------------------------------------------
(* list_publishers (agent.py, lines 143-168), one turn of its loop a step. *)
(* A catalog document is [kind |-> "dict", data, pagination]: data is      *)
(* [kind |-> "missing"], [kind |-> "other"] or [kind |-> "list", items],   *)
(* an item being [dict, id] (dict: whether it is a JSON object);           *)
(* pagination is [kind |-> "missing"], [kind |-> "other"] or               *)
(* [kind |-> "dict", has_more, count] with JSON values.                    *)

DigitChars == <<"0", "1", "2", "3", "4", "5", "6", "7", "8", "9">>

\* str(n) for an int n >= 0
RECURSIVE str_nat(_)
str_nat(n) ==
    IF n < 10 THEN <<DigitChars[n + 1]>>
    ELSE str_nat(n \div 10) \o <<DigitChars[(n % 10) + 1]>>

t_limit_eq == <<"l", "i", "m", "i", "t", "=">>
t_offset_eq == <<"&", "o", "f", "f", "s", "e", "t", "=">>

\* f"/publishers?{urlencode({'limit': limit, 'offset': offset})}"
publishers_path(limit, offset) ==
    p_publishers \o <<"?">> \o t_limit_eq \o str_nat(limit) \o t_offset_eq \o str_nat(offset)

Pagination(has_more, count) == [kind |-> "dict", has_more |-> has_more, count |-> count]

CatalogDocument(data, pagination) == [kind |-> "dict", data |-> data, pagination |-> pagination]

\* isinstance(count, int) and count > 0: a bool is an int in Python (True is 1).
is_positive_int(count) ==
    \/ count.t = "num" /\ count.v > 0
    \/ count.t = "bool" /\ count.v

\* A mutant of offset_step: the test on count is count >= 0.
offset_step_any_count(count, page_items) ==
    IF count.t = "num" /\ count.v >= 0 THEN count.v ELSE Len(page_items)

\* Lines 162-166: what is added to offset after a page.
offset_step(count, page_items) ==
    IF is_positive_int(count)
    THEN (IF count.t = "bool" THEN 1 ELSE count.v)
    ELSE Len(page_items)

\* Lines 150-166: one turn of the loop, on the document _request returned:
\* the publishers and the offset after it, and whether the loop breaks.
list_turn(loc, payload) ==
    IF payload.data.kind # "list"
    THEN Raise("PublisherError", [note |-> "Invalid publisher catalog response: missing data list.",
                                  code |-> 0, path |-> <<>>, text |-> <<>>])
    ELSE LET page_items == SelectSeq(payload.data.items, LAMBDA item : item.dict)
             pagination == payload.pagination
             has_more == IF pagination.kind = "dict"
                         THEN py_bool(dict_get(pagination.has_more, J_null)) ELSE FALSE
             count == IF pagination.kind = "dict"
                      THEN dict_get(pagination.count, J_null) ELSE J_null
         IN  IF ~has_more \/ page_items = <<>>
             THEN [kind |-> "break", publishers |-> loc.publishers \o page_items,
                   offset |-> loc.offset]
             ELSE [kind |-> "next", publishers |-> loc.publishers \o page_items,
                   offset |-> loc.offset + offset_step(count, page_items)]

\* The items of the page the backend sends at a turn: others non-objects
\* followed by dicts objects, the objects numbered from 1.
PageItems(turn, others, dicts) ==
    [i \in 1..(others + dicts) |->
        [dict |-> i > others, id |-> <<turn, IF i > others THEN i - others ELSE 0>>]]

\* Most objects in a page, and most non-objects.
MaxPageDicts == 2
MaxPageOthers == 1

\* The catalog documents a backend answers with at a turn: a document without
\* a data list; and every page with every pagination, the count being varied
\* where has_more is true (it is read only then).
CatalogDocuments(turn) ==
    LET pages == {[kind |-> "list", items |-> PageItems(turn, o, d)] :
                     o \in 0..MaxPageOthers, d \in 0..MaxPageDicts}
        paginations == {[kind |-> "missing"], [kind |-> "other"],
                        Pagination(J_missing, J_missing), Pagination(J_false, Num(3))}
                       \cup {Pagination(J_true, c) :
                                c \in {J_missing, Num(3), Num(0), Num(-1), J_true, Float(2)}}
    IN  {CatalogDocument(d, [kind |-> "missing"]) : d \in {[kind |-> "missing"], [kind |-> "other"]}}
        \cup {CatalogDocument(d, p) : d \in pages, p \in paginations}

\* What can come back for a catalog request.
CatalogWires(turn) ==
    {HttpError(503, t_details), UrlError(t_details), UrlError(t_timed_out), ReadTimeout,
     Undecodable,
     Text(t_html), Text(t_long), Json([kind |-> "list"])}
    \cup {Json(document) : document \in CatalogDocuments(turn)}

\* The values of max_pages a call is made with (5 is the default).
MaxPages == {1, 2, 5}

InitList ==
    /\ DiscoverOff
    /\ ResolveOff
    /\ RunOff
    /\ ClientsOff
    /\ SignOff
    /\ MainOff
    /\ ExtractOff
    /\ lpPc = "loop"
    /\ lpArgs \in [limit : {100}, max_pages : MaxPages]
    /\ lpLoc = [publishers |-> <<>>, offset |-> 0, turns |-> 0, wire |-> [kind |-> "none"]]
    /\ lpRequests = <<>>
    /\ lpOut = [kind |-> "none"]

\* A mutant of loop_ends: only a break ends the loop.
loop_ends_on_break(kind, turns, max_pages) == kind = "break"

\* Lines 147 and 159-160: the loop ends with a break, or with the last of the
\* max_pages turns of "for _ in range(max_pages)".
loop_ends(kind, turns, max_pages) == kind = "break" \/ turns >= max_pages

\* One turn of "for _ in range(max_pages)", and the return that follows the
\* turn when it breaks or is the last one.
LpPage ==
    /\ lpPc = "loop"
    /\ \E wire \in CatalogWires(lpLoc.turns + 1) :
         LET path == publishers_path(lpArgs.limit, lpLoc.offset)
             payload == _request(m_GET, path, wire)
             turn == IF payload.kind = "raise" THEN payload
                     ELSE list_turn(lpLoc, payload.value)
             turns == lpLoc.turns + 1
         IN  /\ lpRequests' = Append(lpRequests,
                                     [method |-> m_GET, path |-> path, offset |-> lpLoc.offset,
                                      timeout |-> 30])
             /\ IF turn.kind = "raise"
                THEN /\ lpPc' = "done"
                     /\ lpOut' = turn
                     /\ lpLoc' = [lpLoc EXCEPT !.turns = turns, !.wire = wire]
                ELSE /\ lpLoc' = [publishers |-> turn.publishers, offset |-> turn.offset,
                                  turns |-> turns, wire |-> wire]
                     /\ IF loop_ends(turn.kind, turns, lpArgs.max_pages)
                        THEN /\ lpPc' = "done"
                             /\ lpOut' = [kind |-> "return", publishers |-> turn.publishers]
                        ELSE UNCHANGED <<lpPc, lpOut>>
    /\ UNCHANGED <<lpArgs, dcVars, rsVars, runVars, clVars, sgVars, mainVars, xtVars>>

NextList == LpPage

SpecList == InitList /\ [][NextList]_vars

\* Every request of a turn ends, with an answer or an exception: the turn
\* that is due is taken.
SpecListFair == SpecList /\ WF_vars(LpPage)

\* C13: list_publishers sends at most max_pages catalog requests and comes
\* to its end (it returns or raises) whatever the backend answers, also when
\* every page reports has_more true, with empty pages or not.
ListBounded ==
    /\ Len(lpRequests) <= lpArgs.max_pages
    /\ Len(lpRequests) = lpLoc.turns
    /\ lpPc = "loop" => lpLoc.turns < lpArgs.max_pages
    /\ lpPc = "done" => lpOut.kind \in {"return", "raise"}

C13_ListPublishersTerminates == []ListBounded /\ <>(lpPc = "done")

\* has_more of the document that came back last is true.
LastHasMore ==
    /\ lpLoc.wire.kind = "json"
    /\ lpLoc.wire.parsed.kind = "dict"
    /\ lpLoc.wire.parsed.pagination.kind = "dict"
    /\ lpLoc.wire.parsed.pagination.has_more = J_true

\* C13 witness: with the default max_pages of 5 the backend reported has_more
\* true on every page, the fifth included, and the call returned after five
\* requests.
C13_Witness ==
    /\ lpPc = "done"
    /\ lpArgs.max_pages = 5
    /\ Len(lpRequests) = 5
    /\ LastHasMore
    /\ lpOut.kind = "return"
    /\ Len(lpOut.publishers) >= 5

\* has_more true with an empty first page: the call returned after one request.
C13_EmptyPageReached ==
    /\ lpPc = "done"
    /\ lpArgs.max_pages = 5
    /\ Len(lpRequests) = 1
    /\ LastHasMore
    /\ lpOut.kind = "return"
    /\ lpOut.publishers = <<>>


\* The answer to a catalog request is a page: a document with a data list.
IsPage(wire) ==
    /\ wire.kind = "json"
    /\ wire.parsed.kind = "dict"
    /\ wire.parsed.data.kind = "list"

\* The items received in a page (the entries that are objects), whether the
\* page reports has_more, and the count it gives ("missing" without one).
Received(wire) == SelectSeq(wire.parsed.data.items, LAMBDA item : item.dict)

ReportsMore(wire) ==
    /\ wire.parsed.pagination.kind = "dict"
    /\ wire.parsed.pagination.has_more = J_true

CountOf(wire) ==
    IF wire.parsed.pagination.kind = "dict" THEN wire.parsed.pagination.count ELSE J_missing

\* What the rule adds to the offset after a page: its count when that is a
\* positive integer, else the number of items received.
RuleStep(wire) ==
    LET count == CountOf(wire)
    IN  IF count.t = "num" /\ count.v > 0 THEN count.v ELSE Len(Received(wire))

\* One turn that received a page, by the rule.
PaginationStep ==
    (lpPc = "loop" /\ lpLoc'.turns = lpLoc.turns + 1 /\ IsPage(lpLoc'.wire)) =>
        LET wire == lpLoc'.wire
            stops == \/ ~ReportsMore(wire)
                     \/ Received(wire) = <<>>
                     \/ lpLoc'.turns = lpArgs.max_pages
        IN  /\ lpRequests' = Append(lpRequests,
                                    [method |-> m_GET,
                                     path |-> publishers_path(lpArgs.limit, lpLoc.offset),
                                     offset |-> lpLoc.offset,
                                     timeout |-> 30])
            /\ lpLoc'.publishers = lpLoc.publishers \o Received(wire)
            /\ IF stops
               THEN /\ lpPc' = "done"
                    /\ lpOut' = [kind |-> "return", publishers |-> lpLoc'.publishers]
               ELSE /\ lpPc' = "loop"
                    /\ lpLoc'.offset = lpLoc.offset + RuleStep(wire)

\* C14: the first request has offset 0; after a page the next request's offset
\* is the previous offset plus pagination.count when count is a positive
\* integer, otherwise plus the number of items received in the page; the loop
\* stops after the first page for which has_more is false or missing, or which
\* is empty, or with the page of the ceiling; the result is the concatenation
\* of the received pages in request order.
C14_PaginationRule ==
    /\ [](lpRequests # <<>> => lpRequests[1].offset = 0)
    /\ [][PaginationStep]_vars

\* C14 witness: the first page held two items with has_more true and count
\* true; the second request was sent with offset 1.
C14_Witness ==
    /\ Len(lpRequests) >= 2
    /\ lpRequests[1].offset = 0
    /\ lpRequests[2].offset = 1
    /\ Len(lpLoc.publishers) >= 2
    /\ lpLoc.publishers[2].id = <<1, 2>>


----------------------------------------------------------------------------
(* The Coinbase transport (SerenClient._call): what it returns and signs.  *)

\* The last call got a response below 400 whose body is JSON.
CbSucceeded ==
    /\ cbLast.kind = "call"
    /\ cbLast.wire.kind = "response"
    /\ cbLast.status_code < 400
    /\ cbLast.wire.data.kind # "invalid"

\* C15: for every successful response the call returns the value under
\* 'body' when the decoded JSON is an object with a 'body' key, whatever that
\* value is (null, a list, an object), and otherwise the decoded JSON
\* unchanged; the envelope is taken off once: {body: {body: X}} gives {body: X}.
C15_EnvelopeUnwrappedOnce ==
    CbSucceeded =>
        LET data == cbLast.wire.data
        IN  /\ cbLast.outcome.kind = "return"
            /\ IF data.kind = "dict" /\ data.has_body
               THEN cbLast.outcome.value = data.body
               ELSE cbLast.outcome.value = data
            /\ data = Envelope(Envelope(JsonObject)) =>
                  cbLast.outcome.value = Envelope(JsonObject)
            /\ data = Envelope(JsonNull) => cbLast.outcome.value = JsonNull

\* C15 witness: the response was {body: {body: {...}}} and the call returned
\* {body: {...}}.
C15_Witness ==
    /\ CbSucceeded
    /\ cbLast.wire.data = Envelope(Envelope(JsonObject))
    /\ cbLast.outcome.kind = "return"
    /\ cbLast.outcome.value = Envelope(JsonObject)

\* The response was {body: null} and the call returned null.
C15_NullBodyReached ==
    /\ CbSucceeded
    /\ cbLast.wire.data = Envelope(JsonNull)
    /\ cbLast.outcome.value = JsonNull

\* The last call was made by a client in direct mode.
CbDirectCall == cbLast.kind = "call" /\ cbPc = "ready" /\ ~cbSelf.publisher_authenticated

SentTimestamp == cbLast.request.headers["CB-ACCESS-TIMESTAMP"][1]

SignedMessage == cbLast.request.headers["CB-ACCESS-SIGN"][3]

\* C16: in direct mode the timestamp header of a request is the one reading
\* of the clock made for that request, the signed message begins with that
\* same timestamp, and the signature is the one of this request: its message
\* goes on with this request's method and ends with this request's body,
\* under the client's secret.
C16_TimestampCapturedOnce ==
    CbDirectCall =>
        /\ SentTimestamp = cbLast.time
        /\ startswith(SignedMessage, cbLast.time \o cbLast.request.method)
        /\ SubSeq(SignedMessage, Len(SignedMessage) - Len(cbLast.request.data) + 1,
                  Len(SignedMessage)) = cbLast.request.data
        /\ cbLast.request.headers["CB-ACCESS-SIGN"][2] = b64decode(cbSelf.cb_secret)

\* C16 witness: a direct-mode order was placed at the second clock value and
\* carries that value as its timestamp header.
C16_Witness ==
    /\ CbDirectCall
    /\ cbLast.op = "place_limit_order"
    /\ cbLast.time = ts_b
    /\ SentTimestamp = ts_b

\* C17: in direct mode the signed message is the timestamp, the method, the
\* path and query as they are sent, and the body as it is sent ('' when no
\* body is sent), for every params and every body.
C17_SignatureCoversWhatIsSent ==
    CbDirectCall =>
        SignedMessage = SentTimestamp \o cbLast.request.method \o cbLast.request.path
                        \o cbLast.request.data

\* C17 witness: open orders were asked for product 'BTC/USD': the path sent
\* holds BTC%2FUSD and the signed message holds BTC/USD.
C17_Witness ==
    /\ CbDirectCall
    /\ cbLast.op = "get_open_orders"
    /\ contains(cbLast.request.path, <<"B", "T", "C", "%", "2", "F", "U", "S", "D">>)
    /\ contains(SignedMessage, v_BTC_slash_USD)
    /\ ~contains(SignedMessage, <<"%">>)


----------------------------------------------------------------------------
(* SerenClient._sign as a function of its arguments, the secret and the    *)
(* clock: two signings side by side.                                       *)

SignSecrets == {"QQ==", "QR==", "Qg=="}

\* What one signing is made of: the client's secret, the arguments of _sign
\* and the value the clock gives.
SignInputs ==
    [cb_secret : SignSecrets,
     method : {m_GET, m_POST, m_post},
     path : {p_orders, p_orders_o1},
     body_str : {<<>>, json_dumps(limit_order_body)},
     timestamp : Timestamps]

InitSign ==
    /\ DiscoverOff
    /\ ResolveOff
    /\ RunOff
    /\ ClientsOff
    /\ ListOff
    /\ MainOff
    /\ ExtractOff
    /\ sgIn \in [a : SignInputs, b : SignInputs]
    /\ sgOut = [kind |-> "none"]

\* Both signings are made: self._sign(method, path, body_str) on a client
\* holding cb_secret, at the given clock value.
Sign ==
    /\ sgOut.kind = "none"
    /\ sgOut' = [kind |-> "signed",
                 a |-> _sign([cb_secret |-> sgIn.a.cb_secret], sgIn.a.method, sgIn.a.path,
                             sgIn.a.body_str, sgIn.a.timestamp),
                 b |-> _sign([cb_secret |-> sgIn.b.cb_secret], sgIn.b.method, sgIn.b.path,
                             sgIn.b.body_str, sgIn.b.timestamp)]
    /\ UNCHANGED <<sgIn, dcVars, rsVars, runVars, clVars, lpVars, mainVars, xtVars>>

NextSign == Sign

SpecSign == InitSign /\ [][NextSign]_vars

SignArguments == {"cb_secret", "method", "path", "body_str"}

\* The two signings were made at the same clock value.
SignedAtOneTime == sgOut.kind = "signed" /\ sgIn.a.timestamp = sgIn.b.timestamp

\* The two signings differ in the argument f and in nothing else.
OnlyChanged(f) ==
    /\ sgIn.a[f] # sgIn.b[f]
    /\ \A g \in SignArguments \ {f} : sgIn.a[g] = sgIn.b[g]

SameSignature == sgOut.a.signature = sgOut.b.signature

\* The signed message is timestamp + UPPERCASE(method) + path + body.
MessageAsSpecified ==
    sgOut.kind = "signed" =>
        sgOut.a.signature[3] = sgIn.a.timestamp \o upper(sgIn.a.method) \o sgIn.a.path
                               \o sgIn.a.body_str

\* C18 as stated: with the timestamp held fixed, signing the same (method,
\* path, body, secret) twice gives identical signatures, and changing any one
\* of method, path, body or secret changes the signature; the signed message
\* is timestamp + UPPERCASE(method) + path_with_query + body.
C18_AnyChangeChangesSignature ==
    /\ MessageAsSpecified
    /\ SignedAtOneTime =>
          /\ sgIn.a = sgIn.b => SameSignature
          /\ \A f \in SignArguments : OnlyChanged(f) => ~SameSignature

\* C18 amended: with the timestamp held fixed, signing the same (method,
\* path, body, secret) twice gives identical signatures; changing the path
\* or the body, the method in more than letter case, or the secret to one
\* that decodes to another key changes the signature; methods that differ in
\* letter case only, and secrets that decode to the same key, give the same
\* signature.  The signed message is timestamp + UPPERCASE(method) +
\* path_with_query + body.
C18_SignatureDeterminismAndSensitivity ==
    /\ MessageAsSpecified
    /\ SignedAtOneTime =>
          /\ sgIn.a = sgIn.b => SameSignature
          /\ OnlyChanged("path") => ~SameSignature
          /\ OnlyChanged("body_str") => ~SameSignature
          /\ OnlyChanged("method") =>
                (SameSignature <=> upper(sgIn.a.method) = upper(sgIn.b.method))
          /\ OnlyChanged("cb_secret") =>
                (SameSignature <=> b64decode(sgIn.a.cb_secret) = b64decode(sgIn.b.cb_secret))

\* C18 witness: the same request signed as GET and as POST at one clock value
\* has two signatures.
C18_Witness ==
    /\ SignedAtOneTime
    /\ OnlyChanged("method")
    /\ sgIn.a.method = m_GET
    /\ sgIn.b.method = m_POST
    /\ ~SameSignature

\* 'post' and 'POST' are signed alike.
C18_MethodCaseReached ==
    /\ SignedAtOneTime
    /\ OnlyChanged("method")
    /\ sgIn.a.method = m_post
    /\ sgIn.b.method = m_POST
    /\ SameSignature

\* 'QQ==' and 'QR==' sign alike.
C18_SecretEncodingReached ==
    /\ SignedAtOneTime
    /\ OnlyChanged("cb_secret")
    /\ sgIn.a.cb_secret = "QQ=="
    /\ sgIn.b.cb_secret = "QR=="
    /\ SameSignature


----------------------------------------------------------------------------
(* Timeouts and bodies that are no JSON, in both transports.               *)

\* The last catalog request ran into the timeout while connecting (urlopen
\* raises URLError for it) or while the response was awaited or read.
ConnectTimedOut == lpLoc.wire.kind = "URLError" /\ lpLoc.wire.reason = t_timed_out

ReadTimedOut == lpLoc.wire.kind = "socket.timeout"

\* C19: every gateway request carries the timeout of 30 seconds, and a
\* timeout at any phase of the request, connecting or reading the response,
\* leaves the Curve transport as PublisherError, the ordinary gateway error.
C19_TimeoutIsGatewayError ==
    /\ \A i \in 1..Len(lpRequests) : lpRequests[i].timeout = 30
    /\ (lpPc = "done" /\ (ConnectTimedOut \/ ReadTimedOut)) =>
          lpOut.kind = "raise" /\ lpOut.exc = "PublisherError"

\* C19 witness: the second catalog request timed out while the response was
\* read, and list_publishers was left by TimeoutError.
C19_Witness ==
    /\ lpPc = "done"
    /\ Len(lpRequests) = 2
    /\ lpRequests[2].timeout = 30
    /\ ReadTimedOut
    /\ lpOut.kind = "raise"
    /\ lpOut.exc = "TimeoutError"

\* A timeout while connecting is a PublisherError.
C19_ConnectTimeoutReached ==
    /\ lpPc = "done"
    /\ ConnectTimedOut
    /\ lpOut.kind = "raise"
    /\ lpOut.exc = "PublisherError"

\* The Coinbase transport: a request that timed out while the response was
\* read carried timeout 30 and left _call by requests' ReadTimeout, which is
\* no HTTPError.
C19_CoinbaseTimeoutReached ==
    /\ cbLast.kind = "call"
    /\ cbLast.wire.kind = "ReadTimeout"
    /\ cbLast.request.timeout = 30
    /\ cbLast.outcome.kind = "raise"
    /\ cbLast.outcome.exc = "ReadTimeout"


\* The last Coinbase call got a response below 400 whose body is no JSON.
CbInvalidJson ==
    /\ cbLast.kind = "call"
    /\ cbLast.wire.kind = "response"
    /\ cbLast.status_code < 400
    /\ cbLast.wire.data.kind = "invalid"

\* C20: a successful HTTP response whose body is no valid JSON makes the
\* transport raise its gateway error, in the Coinbase client the error class
\* of its HTTP failures (HTTPError), and it never returns a value.
C20_InvalidJsonIsGatewayError ==
    CbInvalidJson => cbLast.outcome.kind = "raise" /\ cbLast.outcome.exc = "HTTPError"

\* C20 witness: a 200 response with a body that is no JSON left _call by
\* JSONDecodeError.
C20_Witness ==
    /\ CbInvalidJson
    /\ cbLast.status_code = 200
    /\ cbLast.outcome.kind = "raise"
    /\ cbLast.outcome.exc = "JSONDecodeError"

\* No call returns a value for a body that is no JSON.
C20_NeverReturnsValue == CbInvalidJson => cbLast.outcome.kind = "raise"

\* The Curve transport: text that is no JSON is a PublisherError with the
\* first 200 characters of the text, and JSON that is no object is a
\* PublisherError; what a turn received from _request is a JSON object.
C20_CurveRejects ==
    /\ (lpPc = "done" /\ lpLoc.wire.kind = "text") =>
          /\ lpOut.kind = "raise"
          /\ lpOut.exc = "PublisherError"
          /\ lpOut.error.text = prefix(lpLoc.wire.raw, 200)
          /\ Len(lpOut.error.text) <= 200
    /\ (lpPc = "done" /\ lpLoc.wire.kind = "json" /\ lpLoc.wire.parsed.kind # "dict") =>
          lpOut.kind = "raise" /\ lpOut.exc = "PublisherError"
    /\ (Len(lpRequests) > 0 /\ ~(lpPc = "done" /\ lpOut.kind = "raise")) =>
          lpLoc.wire.kind = "json" /\ lpLoc.wire.parsed.kind = "dict"

\* A text of 201 characters was cut to 200 in the message.
C20_CurvePreviewReached ==
    /\ lpPc = "done"
    /\ lpLoc.wire = Text(t_long)
    /\ lpOut.kind = "raise"
    /\ Len(lpOut.error.text) = 200

\* Bytes that are no UTF-8 leave the Curve transport by UnicodeDecodeError.
C20_CurveUndecodableReached ==
    /\ lpPc = "done"
    /\ lpLoc.wire.kind = "bytes"
    /\ lpOut.kind = "raise"
    /\ lpOut.exc = "UnicodeDecodeError"


----------------------------------------------------------------------------
(* The CLI boundary of the Curve agent (main).                             *)

\* The process has ended, and not by --init-wallet.
RunExited == mainPc = "exited" /\ mainOut.outcome.kind # "init_wallet"

\* C21: a run prints exactly one JSON object; either every step succeeded,
\* the result object is printed and the exit code is 0, or a step failed
\* (load_config or any step of run_once: config, wallet file, gateway call,
\* response decoding), {status: 'error', error: message} is printed and the
\* exit code is 1; no result object is printed after a failed step.
C21_CliBoundary ==
    RunExited =>
        /\ Len(mainOut.stdout) = 1
        /\ IF mainOut.outcome.kind = "return"
           THEN mainOut.stdout[1] = mainOut.outcome /\ mainOut.exit_code = 0
           ELSE /\ mainOut.stdout[1] = [status |-> "error", error |-> mainOut.outcome.error]
                /\ mainOut.exit_code = 1

\* C21 witness: the local wallet file held no JSON; run_once was left by
\* JSONDecodeError, nothing was printed on stdout and the process ended with
\* the traceback.
C21_Witness ==
    /\ RunExited
    /\ runPc = "done"
    /\ runLoc.signer = Unset
    /\ mainOut.outcome = Raise("JSONDecodeError", "json.loads")
    /\ mainOut.stdout = <<>>
    /\ mainOut.traceback
    /\ mainOut.exit_code = 1

\* After a failed step no result object is printed, and the exit code is 1.
C21_NoResultAfterFailure ==
    (RunExited /\ mainOut.outcome.kind = "raise") =>
        /\ mainOut.exit_code = 1
        /\ \A i \in 1..Len(mainOut.stdout) : mainOut.stdout[i].status = "error"

\* ConfigError and PublisherError are printed as the error object.
C21_CaughtErrorsPrinted ==
    (RunExited /\ mainOut.outcome.kind = "raise"
        /\ mainOut.outcome.exc \in {"ConfigError", "PublisherError"}) =>
        /\ mainOut.stdout = <<[status |-> "error", error |-> mainOut.outcome.error]>>
        /\ mainOut.exit_code = 1

\* A run that succeeded printed its result and ended with 0.
C21_SuccessReached ==
    /\ RunExited
    /\ mainOut.outcome.kind = "return"
    /\ mainOut.stdout = <<runResult>>
    /\ mainOut.exit_code = 0

\* A gateway call that timed out while the response was read ended the
\* process with the traceback.
C21_TimeoutReached ==
    /\ RunExited
    /\ mainOut.outcome.kind = "raise"
    /\ mainOut.outcome.exc = "TimeoutError"
    /\ mainOut.stdout = <<>>


----------------------------------------------------------------------------
(* PolymarketClient: the error of the last alias, the balance, the bound   *)
(* of the alias fallback.                                                  *)

\* A _call_trading has ended after its attempt at the last alias failed with
\* status 401 or 403.
LastAliasUnauthorized ==
    /\ pmPc = "ready"
    /\ pmOut.kind = "ended"
    /\ pmCall.op # "get_markets"
    /\ pmRequests # <<>>
    /\ Len(pmRequests) = Len(pmSelf.trading_publishers)
    /\ pmRequests[Len(pmRequests)].outcome.kind = "raise"
    /\ pmRequests[Len(pmRequests)].outcome.status \in {s_401, s_403}

\* C22: when the attempts fail with 401/403 up to and including the last
\* alias, _call_trading raises, in platform (desktop publisher-auth) mode, an
\* error whose message says that desktop publisher authentication failed and
\* tells to configure the publisher credentials, not the remote error; in
\* direct-header mode the error of the last alias is raised unchanged.
C22_LastAliasUnauthorized ==
    LastAliasUnauthorized =>
        LET last == pmRequests[Len(pmRequests)].outcome
            raised == pmOut.call_trading
        IN  /\ raised.kind = "raise"
            /\ raised.cause = last
            /\ IF pmSelf.desktop_publisher_auth
               THEN /\ raised.message = HelpfulMessage
                    /\ raised.message # last.message
                    /\ contains(raised.message, e_authentication_failed)
                    /\ contains(raised.message, e_configure_credentials)
               ELSE raised.message = last.message

\* C22 witness: in desktop mode both default aliases answered 401 and the
\* helpful error was raised.
C22_Witness ==
    /\ LastAliasUnauthorized
    /\ pmSelf.desktop_publisher_auth
    /\ Len(pmRequests) = 2
    /\ \A i \in 1..2 : pmRequests[i].outcome.kind = "raise" /\ pmRequests[i].outcome.status = s_401
    /\ pmOut.call_trading.message = HelpfulMessage

\* In direct-header mode the 403 of the last alias was raised as it came.
C22_DirectReached ==
    /\ LastAliasUnauthorized
    /\ ~pmSelf.desktop_publisher_auth
    /\ Len(pmRequests) = 2
    /\ pmRequests[2].outcome.status = s_403
    /\ pmOut.call_trading.message = publisher_call_failed(s_403, e_forbidden)


\* get_balance has ended.
GetBalanceEnded == pmPc = "ready" /\ pmOut.kind = "ended" /\ pmCall.op = "get_balance"

\* A text of decimal digits.
IsDigits(text) == text # <<>> /\ \A k \in 1..Len(text) : text[k] \in Digits

\* The value that holds the balance in a payload: the payload's 'body' when
\* it has one, else the payload; of an object its 'balance' (0.0 when it has
\* none), of a number the number.  No value: the payload is no object, or
\* what it holds is neither an object nor a number.
BalanceHolder(payload) == IF payload.body.t # "missing" THEN payload.body ELSE payload

BalanceIn(payload) ==
    LET holder == BalanceHolder(payload)
    IN  IF holder.t = "dict"
        THEN IF holder.balance.t = "missing" THEN Float(0) ELSE holder.balance
        ELSE holder

\* The balance can be read as a number: a JSON number, a boolean (float()
\* reads it as 1.0 or 0.0), or, under 'balance', a text of digits.
ReadsAsNumber(payload) ==
    /\ payload.t = "dict"
    /\ LET value == BalanceIn(payload)
       IN  \/ value.t \in {"num", "float", "bool"}
           \/ BalanceHolder(payload).t = "dict" /\ value.t = "str" /\ IsDigits(strip(value.v))

NumberRead(value) ==
    CASE value.t = "bool" -> IF value.v THEN 1 ELSE 0
      [] value.t = "str" -> digits_value(strip(value.v))
      [] OTHER -> value.v

\* C23: get_balance never raises; on any failure of the balance request (all
\* aliases failing, an auth error, a payload that is malformed or holds no
\* number) it returns 0.0, and otherwise the balance found in the payload.
C23_BalanceNeverRaises ==
    GetBalanceEnded =>
        /\ pmOut.operation.kind = "return"
        /\ pmOut.call_trading.kind = "raise" => pmOut.operation.value = 0
        /\ pmOut.call_trading.kind = "return" =>
              LET payload == pmOut.call_trading.payload
              IN  IF ReadsAsNumber(payload)
                  THEN pmOut.operation.value = NumberRead(BalanceIn(payload))
                  ELSE pmOut.operation.value = 0

\* C23 witness: the second alias answered {"balance": "abc"} after the first
\* answered 404, and get_balance returned 0.0.
C23_Witness ==
    /\ GetBalanceEnded
    /\ Len(pmRequests) = 2
    /\ pmOut.call_trading.kind = "return"
    /\ pmOut.call_trading.payload = BalanceDoc(Str(t_abc))
    /\ pmOut.operation = [kind |-> "return", value |-> 0]

\* Every alias failed with 401 and get_balance returned 0.0.
C23_AuthFailureReached ==
    /\ GetBalanceEnded
    /\ pmOut.call_trading.kind = "raise"
    /\ pmRequests # <<>>
    /\ pmRequests[Len(pmRequests)].outcome.status = s_401
    /\ pmOut.operation = [kind |-> "return", value |-> 0]

\* {"body": {"balance": 25}} gave 25.
C23_BalanceReached ==
    /\ GetBalanceEnded
    /\ pmOut.call_trading.kind = "return"
    /\ pmOut.call_trading.payload = BalanceEnvelope(BalanceDoc(Num(25)))
    /\ pmOut.operation.value = 25

\* {"balance": true} gave 1.0.
C23_BooleanReached ==
    /\ GetBalanceEnded
    /\ pmOut.call_trading.kind = "return"
    /\ pmOut.call_trading.payload = BalanceDoc(J_true)
    /\ pmOut.operation.value = 1


\* A _call_trading has ended.
CallTradingOver == pmPc = "ready" /\ pmOut.kind = "ended" /\ pmCall.op # "get_markets"

C27_EmptyListReached ==
    /\ CallTradingOver
    /\ pmSelf.trading_publishers = <<>>
    /\ pmRequests = <<>>
    /\ pmOut.call_trading.exc = "RuntimeError"

\* The first alias answered and the second was not attempted.
C27_FirstSuccessReached ==
    /\ CallTradingOver
    /\ Len(pmSelf.trading_publishers) = 3
    /\ Len(pmRequests) = 1
    /\ pmOut.call_trading.kind = "return"


----------------------------------------------------------------------------
(* C24: cancel_all_orders of the Coinbase client *)

CancelAllEnded == cbLast.kind = "cancel_all"

\* The entries of the listing that are orders: they carry an 'id'.
IsOrder(entry) == entry.has_id

OrdersOf(open_orders) == SelectSeq(open_orders, IsOrder)

\* The entries whose cancel request came back without an exception.
CancelledEntries(self, open_orders, wires) ==
    {i \in 1..Len(open_orders) :
        open_orders[i].has_id /\ call_outcome(self, wires[i]).kind = "return"}

ListingCameBack ==
    /\ call_outcome(cbSelf, cbLast.listing).kind = "return"
    /\ call_outcome(cbSelf, cbLast.listing).value.kind = "list"

\* C24: after the listing came back, cancel_all_orders sends exactly one
\* cancel request per open order, in the order of the listing; a cancel that
\* fails does not stop the cancels after it and is not reported; the number
\* returned is the number of cancels that succeeded, between zero and the
\* number of open orders.  A listing that fails sends no cancel and the
\* failure leaves cancel_all_orders.
C24_CancelAllOrders ==
    CancelAllEnded =>
        LET orders == OrdersOf(cbLast.open_orders)
            cancels == SubSeq(cbLast.requests, 2, Len(cbLast.requests))
        IN  /\ Len(cbLast.requests) >= 1
            /\ cbLast.requests[1].method = m_GET
            /\ IF ListingCameBack
               THEN /\ Len(cancels) = Len(orders)
                    /\ \A k \in 1..Len(orders) :
                          /\ cancels[k].method = m_DELETE
                          /\ cancels[k].path = p_orders \o <<"/">> \o orders[k].id
                    /\ cbLast.outcome.kind = "return"
                    /\ cbLast.outcome.value =
                          Cardinality(CancelledEntries(cbSelf, cbLast.open_orders, cbLast.wires))
                    /\ cbLast.outcome.value \in 0..Len(orders)
               ELSE /\ cancels = <<>>
                    /\ cbLast.outcome.kind = "raise"
                    /\ call_outcome(cbSelf, cbLast.listing).kind = "raise"
                          => cbLast.outcome = call_outcome(cbSelf, cbLast.listing)

\* Two open orders, the cancel of the first fails, the second is still
\* cancelled: two cancel requests, 1 returned.
C24_Witness ==
    /\ CancelAllEnded
    /\ ListingCameBack
    /\ cbLast.open_orders = <<Order(1), Order(2)>>
    /\ call_outcome(cbSelf, cbLast.wires[1]).kind = "raise"
    /\ call_outcome(cbSelf, cbLast.wires[2]).kind = "return"
    /\ Len(cbLast.requests) = 3
    /\ cbLast.outcome = [kind |-> "return", value |-> 1]

\* The listing request fails with a server error: no cancel, the error leaves.
C24_ListingFailureReached ==
    /\ CancelAllEnded
    /\ cbLast.listing = CbResponse(500, JsonObject)
    /\ cbLast.outcome.kind = "raise"
    /\ Len(cbLast.requests) = 1

\* Every cancel succeeds: the number of open orders is returned.
C24_AllCancelledReached ==
    /\ CancelAllEnded
    /\ ListingCameBack
    /\ cbLast.open_orders = <<Order(1), Order(2)>>
    /\ cbLast.outcome = [kind |-> "return", value |-> 2]


----------------------------------------------------------------------------
(* The response shape normalizer, SerenClient._extract_text of the
   Polymarket bot.  A response is a JSON object: its entries in the order
   they were inserted, each a key and a value.                              *)

k_body == <<"b", "o", "d", "y">>
k_choices == <<"c", "h", "o", "i", "c", "e", "s">>
k_output == <<"o", "u", "t", "p", "u", "t">>
k_text == <<"t", "e", "x", "t">>
k_error == <<"e", "r", "r", "o", "r">>
k_foo == <<"f", "o", "o">>

x_T == <<"T">>
x_U == <<"U">>
x_overloaded == <<"o", "v", "e", "r", "l", "o", "a", "d", "e", "d">>

e_unsupported_shape ==
    <<"U", "n", "s", "u", "p", "p", "o", "r", "t", "e", "d", " ", "m", "o", "d", "e", "l", " ",
      "r", "e", "s", "p", "o", "n", "s", "e", " ", "s", "h", "a", "p", "e", ":", " ",
      "k", "e", "y", "s", "=">>

\* Values: a string, null, a number, a list of content blocks, a choices
\* list whose first choice holds message.content, an output list whose
\* first item holds content, an object.
JNull == [t |-> "null"]
Blocks(list) == [t |-> "blocks", v |-> list]
Choices(content) == [t |-> "choices", v |-> content]
Output(content) == [t |-> "output", v |-> content]
Object(entries) == [t |-> "dict", v |-> entries]

TextBlock(text) == [type |-> "text", text |-> text]
ImageBlock == [type |-> "image", text |-> <<>>]

Field(key, value) == [key |-> key, value |-> value]

has_key(response, key) == \E i \in 1..Len(response) : response[i].key = key

get(response, key) == response[CHOOSE i \in 1..Len(response) : response[i].key = key].value

\* sorted(keys): the smallest first.
RECURSIVE sorted_list(_)
sorted_list(keys) ==
    IF keys = {} THEN <<>>
    ELSE <<min_key(keys)>> \o sorted_list(keys \ {min_key(keys)})

\* repr of a list of str: ['a', 'b']
RECURSIVE quoted(_)
quoted(keys) ==
    IF keys = <<>> THEN <<>>
    ELSE <<<<"'">> \o Head(keys) \o <<"'">>>> \o quoted(Tail(keys))

repr_list(keys) == <<"[">> \o join(<<",", " ">>, quoted(keys)) \o <<"]">>

\* A mutant of top_level_keys: list(response.keys()), in insertion order.
inserted_keys(response) == [i \in 1..Len(response) |-> response[i].key]

\* sorted(response.keys())
top_level_keys(response) == sorted_list({response[i].key : i \in 1..Len(response)})

unsupported_shape(response) ==
    [kind |-> "raise", exc |-> "UnsupportedShapeError",
     message |-> e_unsupported_shape \o repr_list(top_level_keys(response))]

\* The first block whose type is "text", none when there is no such block.
first_text_block(blocks) ==
    IF \E i \in 1..Len(blocks) : blocks[i].type = "text"
    THEN LET first == CHOOSE i \in 1..Len(blocks) :
                         /\ blocks[i].type = "text"
                         /\ \A j \in 1..(i - 1) : blocks[j].type # "text"
         IN  [found |-> TRUE, text |-> blocks[first].text]
    ELSE [found |-> FALSE]

\* The most body envelopes that are unwrapped.
MaxUnwrap == 3

\* Steps 2-7 on an object that is not unwrapped.
extract_flat(response) ==
    LET choices == IF has_key(response, k_choices) THEN get(response, k_choices) ELSE JNull
        output == IF has_key(response, k_output) THEN get(response, k_output) ELSE JNull
        text == IF has_key(response, k_text) THEN get(response, k_text) ELSE JNull
    IN  IF choices.t = "choices" /\ choices.v.t = "str"
        THEN [kind |-> "return", text |-> choices.v.v]
        ELSE IF choices.t = "choices" /\ choices.v.t = "blocks"
        THEN IF first_text_block(choices.v.v).found
             THEN [kind |-> "return", text |-> first_text_block(choices.v.v).text]
             ELSE unsupported_shape(response)
        ELSE IF output.t = "output" /\ output.v.t = "blocks"
        THEN IF first_text_block(output.v.v).found
             THEN [kind |-> "return", text |-> first_text_block(output.v.v).text]
             ELSE unsupported_shape(response)
        ELSE IF text.t = "str"
        THEN [kind |-> "return", text |-> text.v]
        ELSE unsupported_shape(response)

\* A mutant of extract_text: the body envelope is not unwrapped.
extract_text_flat(response, depth) == extract_flat(response)

\* extract_text(response): step 1 unwraps a body envelope and starts again,
\* steps 2-7 follow.
RECURSIVE extract_text(_, _)
extract_text(response, depth) ==
    IF /\ has_key(response, k_body)
       /\ get(response, k_body).t = "dict"
       /\ depth < MaxUnwrap
    THEN extract_text(get(response, k_body).v, depth + 1)
    ELSE extract_flat(response)

\* {body: X}
wrapped(response) == <<Field(k_body, Object(response))>>


\* The content-block lists of the responses looked at.
BlockLists ==
    {<<TextBlock(x_T)>>, <<ImageBlock, TextBlock(x_T)>>, <<TextBlock(x_T), TextBlock(x_U)>>,
     <<ImageBlock>>, <<>>}

\* The entries an object is made of.
ChoicesFields == {Field(k_choices, Choices(c)) : c \in {Str(x_T), JNull} \cup {Blocks(b) : b \in BlockLists}}

OutputFields == {Field(k_output, Output(c)) : c \in {JNull} \cup {Blocks(b) : b \in BlockLists}}

TextFields == {Field(k_text, v) : v \in {Str(x_T), Str(x_U), JNull}}

OtherFields == {Field(k_error, Str(x_overloaded)), Field(k_foo, Str(x_T)), Field(k_status, Num(500))}

\* The entries that are paired with a second entry.
PairedFields ==
    {Field(k_choices, Choices(Str(x_T))), Field(k_choices, Choices(Blocks(<<ImageBlock>>))),
     Field(k_output, Output(Blocks(<<TextBlock(x_U)>>))), Field(k_text, Str(x_U))}
        \cup OtherFields

\* Objects without a body envelope: one entry, or two entries in either order.
FlatResponses ==
    {<<f>> : f \in ChoicesFields \cup OutputFields \cup TextFields \cup OtherFields}
        \cup {<<pair[1], pair[2]>> : pair \in {p \in PairedFields \X PairedFields : p[1].key # p[2].key}}

\* Objects with a body envelope: around an object, next to a text entry,
\* around another envelope, and a body that is not an object.
BodyResponses ==
    {wrapped(x) : x \in {<<f>> : f \in ChoicesFields \cup TextFields \cup OtherFields}}
        \cup {<<Field(k_text, Str(x_U)), Field(k_body, Object(<<f>>))>> : f \in OtherFields \cup TextFields}
        \cup {wrapped(wrapped(<<f>>)) : f \in TextFields \cup OtherFields}
        \cup {<<Field(k_body, Str(x_T))>>, <<Field(k_body, Str(x_T)), Field(k_text, Str(x_U))>>}

ExtractInputs == FlatResponses \cup BodyResponses

InitExtract ==
    /\ DiscoverOff
    /\ ResolveOff
    /\ RunOff
    /\ ClientsOff
    /\ ListOff
    /\ SignOff
    /\ MainOff
    /\ xtIn \in {[kind |-> "response", response |-> x] : x \in ExtractInputs}
    /\ xtOut = [kind |-> "none"]

\* _extract_text(response) and _extract_text({'body': response})
Extract ==
    /\ xtIn.kind = "response"
    /\ xtOut.kind = "none"
    /\ xtOut' = [kind |-> "done",
                 bare |-> extract_text(xtIn.response, 0),
                 enveloped |-> extract_text(wrapped(xtIn.response), 0)]
    /\ UNCHANGED <<xtIn, dcVars, rsVars, runVars, clVars, lpVars, sgVars, mainVars>>

NextExtract == Extract

SpecExtract == InitExtract /\ [][NextExtract]_vars


----------------------------------------------------------------------------
(* C25, C26: the response shape normalizer *)

Extracted == xtOut.kind = "done"

\* C25: for every response X on which extract_text returns a string (string
\* content in choices, a content-block list in choices, an output content
\* list, a top-level text), extract_text({body: X}) returns the same string;
\* for every X on which extract_text fails, extract_text({body: X}) fails too.
C25_BodyEnvelopeRoundTrip ==
    Extracted =>
        /\ xtOut.bare.kind = "return" => xtOut.enveloped = xtOut.bare
        /\ xtOut.bare.kind = "raise" => xtOut.enveloped.kind = "raise"

\* The content-block list in choices whose first block is an image: the text
\* of the second block comes back, with and without the envelope.
C25_Witness ==
    /\ Extracted
    /\ xtIn.response = <<Field(k_choices, Choices(Blocks(<<ImageBlock, TextBlock(x_T)>>)))>>
    /\ xtOut.bare = [kind |-> "return", text |-> x_T]
    /\ xtOut.enveloped = [kind |-> "return", text |-> x_T]

C25_StringContentReached ==
    /\ Extracted
    /\ xtIn.response = <<Field(k_choices, Choices(Str(x_T)))>>
    /\ xtOut.enveloped = [kind |-> "return", text |-> x_T]

C25_OutputReached ==
    /\ Extracted
    /\ xtIn.response = <<Field(k_output, Output(Blocks(<<TextBlock(x_T), TextBlock(x_U)>>)))>>
    /\ xtOut.enveloped = [kind |-> "return", text |-> x_T]

C25_TextReached ==
    /\ Extracted
    /\ xtIn.response = <<Field(k_text, Str(x_U))>>
    /\ xtOut.enveloped = [kind |-> "return", text |-> x_U]

C25_FailureReached ==
    /\ Extracted
    /\ xtIn.response = <<Field(k_foo, Str(x_T))>>
    /\ xtOut.bare.kind = "raise"
    /\ xtOut.enveloped.kind = "raise"

\* A value that holds a text: a string, or a block list with a text block.
HoldsText(value) ==
    \/ value.t = "str"
    \/ value.t = "blocks" /\ \E i \in 1..Len(value.v) : value.v[i].type = "text"

\* The keys of the object match no recognized shape: no body envelope, no
\* text in choices, in output or at top level.
NoRecognizedShape(response) ==
    \A i \in 1..Len(response) :
        LET entry == response[i]
        IN  /\ entry.key # k_body
            /\ entry.key = k_choices => ~(entry.value.t = "choices" /\ HoldsText(entry.value.v))
            /\ entry.key = k_output =>
                  ~(entry.value.t = "output" /\ entry.value.v.t = "blocks" /\ HoldsText(entry.value.v))
            /\ entry.key = k_text => entry.value.t # "str"

\* The keys of the object, each once, in increasing order.
IsSortedKeyList(keys, response) ==
    /\ Len(keys) = Len(response)
    /\ \A i \in 1..Len(response) : \E j \in 1..Len(keys) : keys[j] = response[i].key
    /\ \A i, j \in 1..Len(keys) : i < j => str_less(keys[i], keys[j])

KeyOrders(response) ==
    {[i \in 1..Len(response) |-> response[order[i]].key] : order \in Permutations(1..Len(response))}

\* C26: on an object whose keys match no recognized shape, an error envelope
\* included, extract_text raises the unsupported-shape error and its message is
\* 'Unsupported model response shape: keys=' followed by the sorted list of
\* the object's top-level keys.
C26_UnsupportedShapeRaises ==
    (Extracted /\ NoRecognizedShape(xtIn.response)) =>
        /\ xtOut.bare.kind = "raise"
        /\ xtOut.bare.exc = "UnsupportedShapeError"
        /\ \E keys \in KeyOrders(xtIn.response) :
              /\ IsSortedKeyList(keys, xtIn.response)
              /\ xtOut.bare.message = e_unsupported_shape \o repr_list(keys)

\* {'status': 500, 'error': 'overloaded'}: the message ends with
\* ['error', 'status'].
C26_Witness ==
    /\ Extracted
    /\ xtIn.response = <<Field(k_status, Num(500)), Field(k_error, Str(x_overloaded))>>
    /\ NoRecognizedShape(xtIn.response)
    /\ xtOut.bare.kind = "raise"
    /\ xtOut.bare.message =
          e_unsupported_shape \o
          <<"[", "'", "e", "r", "r", "o", "r", "'", ",", " ",
            "'", "s", "t", "a", "t", "u", "s", "'", "]">>

\* {'error': 'overloaded'}: the message ends with ['error'].
C26_ErrorEnvelopeReached ==
    /\ Extracted
    /\ xtIn.response = <<Field(k_error, Str(x_overloaded))>>
    /\ xtOut.bare.kind = "raise"
    /\ xtOut.bare.message = e_unsupported_shape \o <<"[", "'", "e", "r", "r", "o", "r", "'", "]">>

\* A content-block list without a text block.
C26_NoTextBlockReached ==
    /\ Extracted
    /\ xtIn.response = <<Field(k_choices, Choices(Blocks(<<ImageBlock>>)))>>
    /\ xtOut.bare.kind = "raise"


----------------------------------------------------------------------------
(* C28: the order of the steps of run_once before the live trade *)

GaugesRequest == Request(s_curve_finance, m_GET, p_gauges_highest_rewards)

PreflightRequest == Request(s_evm_exec, m_POST, p_preflight_liquidity)

IsSyncRequest(request) ==
    /\ request.publisher = s_evm_exec
    /\ request.method = m_POST
    /\ request.path \in {DEFAULT_POSITION_SYNC_PATH, p_sync}

PipelineRequests == {GaugesRequest, PreflightRequest, LiveTradeRequest}

\* A step has its result only when the step before it has its own; the
\* trade plan is chosen from the gauges as soon as they are fetched.
StepsCompletedInOrder ==
    /\ runLoc.rpc_capability # Unset => runLoc.signer # Unset
    /\ runLoc.position_sync # Unset => runLoc.rpc_capability # Unset
    /\ runLoc.trade_plan # Unset => runLoc.position_sync # Unset
    /\ runLoc.preflight # Unset => runLoc.trade_plan # Unset

\* The live-trade request is the last request of the run, right after the
\* preflight request, itself right after the gauge request; the sync request,
\* when there is one, is right before the gauge request, and every request
\* before is a probe of the RPC check.
BeforeLiveTrade ==
    LET n == Len(runRequests)
        synced == runLoc.position_sync.status = "synced"
        probes == IF synced THEN n - 4 ELSE n - 3
    IN  /\ n >= 3
        /\ runRequests[n] = LiveTradeRequest
        /\ runRequests[n - 1] = PreflightRequest
        /\ runRequests[n - 2] = GaugesRequest
        /\ synced => n >= 4 /\ IsSyncRequest(runRequests[n - 3])
        /\ \A i \in 1..probes :
              /\ runRequests[i] \notin PipelineRequests
              /\ ~IsSyncRequest(runRequests[i])
        /\ runLoc.signer.kind = "ok"
        /\ \/ runLoc.rpc_capability.status = "ok"
           \/ /\ runLoc.rpc_capability.status = "warning"
              /\ runLoc.rpc_capability.required = FALSE
        /\ runLoc.position_sync.status \in {"synced", "skipped"}
        /\ runLoc.gauges_response \in GaugesResponses
        /\ runLoc.trade_plan = choose_trade_plan(runLoc.gauges_response,
                                                 runLoc.inputs.deposit_amount_usd)
        /\ runLoc.preflight = [status |-> "ok"]

\* A PublisherError of the gauge fetch or of the preflight ends the run, and
\* a run that is over sends nothing more.
PublisherErrorEndsRun ==
    /\ (runPc \in {"gauges", "preflight"} /\ runResult'.kind = "raise"
            /\ runResult'.exc = "PublisherError") =>
          /\ runPc' = "done"
          /\ \A i \in 1..Len(runRequests') : runRequests'[i] # LiveTradeRequest
    /\ runPc = "done" => (runPc' = "done" /\ runRequests' = runRequests /\ runResult' = runResult)

\* C28: whenever the live-trade request is issued, the signer resolution, the
\* RPC capability check (ok, or warning when not required), the position sync
\* (succeeded, or disabled), the gauge fetch and the preflight of the same run
\* completed before it, in this order; a PublisherError from the gauge fetch
\* or the preflight ends the run with no live-trade request; at most one
\* live-trade request is issued per run.
C28_StepsBeforeLiveTrade ==
    /\ [](StepsCompletedInOrder /\ (LiveTradeSent => BeforeLiveTrade))
    /\ [][PublisherErrorEndsRun]_vars

\* A live trade after a warning of the RPC check and a position sync: the
\* three probes, the sync, the gauges, the preflight, the trade.
C28_Witness ==
    /\ LiveTradeSent
    /\ runLoc.rpc_capability.status = "warning"
    /\ runLoc.position_sync.status = "synced"
    /\ Len(runRequests) = 7
    /\ runPc = "done"
    /\ runResult.kind = "return"

\* A live trade with the position sync disabled.
C28_SyncDisabledReached ==
    /\ LiveTradeSent
    /\ runLoc.position_sync.status = "skipped"
    /\ runLoc.rpc_capability.status = "ok"

\* The gauge fetch fails with PublisherError on the live path.
C28_GaugeErrorReached ==
    /\ runPc = "done"
    /\ runResult.kind = "raise"
    /\ runResult.exc = "PublisherError"
    /\ runRequests # <<>>
    /\ runRequests[Len(runRequests)] = GaugesRequest
    /\ ~runLoc.dry_run
    /\ runLoc.inputs.live_mode
    /\ runIn.yes_live
    /\ ~LiveTradeSent

\* The preflight fails with PublisherError on the live path.
C28_PreflightErrorReached ==
    /\ runPc = "done"
    /\ runResult.kind = "raise"
    /\ runResult.exc = "PublisherError"
    /\ runRequests # <<>>
    /\ runRequests[Len(runRequests)] = PreflightRequest
    /\ ~runLoc.dry_run
    /\ runLoc.inputs.live_mode
    /\ runIn.yes_live
    /\ ~LiveTradeSent


----------------------------------------------------------------------------
(* C29: a position sync that fails *)

SyncRequestSent == \E i \in 1..Len(runRequests) : IsSyncRequest(runRequests[i])

LivePath == ~runLoc.dry_run /\ runLoc.inputs.live_mode

SyncAborted ==
    /\ runPc = "done"
    /\ runResult.kind = "raise"
    /\ runResult.exc = "ConfigError"
    /\ runResult.error = "Position sync failed before live trade"

PositionSyncDecided == runLoc.position_sync # Unset

\* What the step of the position sync leaves behind.
SyncOutcomes ==
    /\ (PositionSyncDecided /\ runLoc.position_sync.status = "warning") =>
          /\ runLoc.dry_run \/ ~runLoc.inputs.live_mode
          /\ SyncRequestSent
    /\ (PositionSyncDecided /\ runLoc.position_sync.status = "skipped") => ~SyncRequestSent
    /\ (PositionSyncDecided /\ runLoc.position_sync.status = "synced") => SyncRequestSent
    /\ SyncAborted =>
          /\ LivePath
          /\ IsSyncRequest(runRequests[Len(runRequests)])
          /\ runLoc.position_sync = Unset
          /\ runLoc.trade_plan = Unset
          /\ runLoc.preflight = Unset
          /\ \A i \in 1..Len(runRequests) : runRequests[i] \notin PipelineRequests

\* The step of the position sync: on the live path it ends with the sync
\* done or skipped, or with the end of the run; off the live path a sync
\* request that is sent never ends the run with ConfigError.
SyncStep ==
    runPc = "position_sync" =>
        /\ runPc' \in {"position_sync", "gauges", "done"}
        /\ (runPc' = "gauges" /\ LivePath) => runLoc'.position_sync.status \in {"synced", "skipped"}
        /\ (runPc' = "gauges" /\ ~LivePath) =>
              runLoc'.position_sync.status \in {"synced", "skipped", "warning"}
        /\ (runPc' = "done" /\ ~LivePath /\ runRequests' # runRequests) =>
              runResult'.exc # "ConfigError"
        /\ Len(runRequests') <= Len(runRequests) + 1

\* C29: when the position sync is enabled and its request fails with
\* PublisherError, the run goes on with position_sync status 'warning' if
\* dry_run is true or live_mode is false, and otherwise aborts with
\* ConfigError before the gauge fetch, whatever yes_live is, so that no
\* preflight and no live-trade request is sent; when the position sync is
\* disabled no sync request is sent and position_sync is status 'skipped'.
C29_PositionSyncFailure == []SyncOutcomes /\ [][SyncStep]_vars

\* The sync fails on the live path without --yes-live: ConfigError.
C29_Witness ==
    /\ SyncAborted
    /\ ~runIn.yes_live
    /\ SyncRequestSent

\* The sync fails on the live path with --yes-live: ConfigError all the same.
C29_AbortWithYesLiveReached ==
    /\ SyncAborted
    /\ runIn.yes_live

\* The sync fails off the live path: the run goes on to its end with a warning.
C29_WarningReached ==
    /\ runPc = "done"
    /\ runResult.kind = "return"
    /\ runResult.position_sync.status = "warning"
    /\ runResult.mode = "dry-run"

\* The sync is disabled: the run goes on without a sync request.
C29_SkippedReached ==
    /\ runPc = "done"
    /\ runResult.kind = "return"
    /\ runResult.position_sync.status = "skipped"
    /\ ~SyncRequestSent


----------------------------------------------------------------------------
(* C30: the offsets of one list_publishers call *)

\* C30: within one list_publishers call the first catalog request has offset
\* 0 and the offsets of successive requests are strictly increasing, whatever
\* the backend answers (count missing, zero, negative, non-integer): a
\* further page is requested at an offset at least 1 above the previous one,
\* and no offset, and so no request path, is asked for twice.
C30_OffsetsStrictlyIncreasing ==
    /\ lpRequests # <<>> => lpRequests[1].offset = 0
    /\ \A i \in 1..Len(lpRequests) :
          lpRequests[i].path = publishers_path(lpArgs.limit, lpRequests[i].offset)
    /\ \A i \in 1..(Len(lpRequests) - 1) :
          lpRequests[i + 1].offset >= lpRequests[i].offset + 1
    /\ \A i, j \in 1..Len(lpRequests) :
          i # j => /\ lpRequests[i].offset # lpRequests[j].offset
                   /\ lpRequests[i].path # lpRequests[j].path

\* Three requests at offsets 0, 2 and 3: the first page advanced the offset by
\* its two items, the second by 1.
C30_Witness ==
    /\ Len(lpRequests) = 3
    /\ lpRequests[1].offset = 0
    /\ lpRequests[2].offset = 2
    /\ lpRequests[3].offset = 3

\* A first page of two items with has_more true and count 0: the loop goes on
\* with offset 2.
C30_ZeroCountReached ==
    /\ Len(lpRequests) = 1
    /\ lpPc = "loop"
    /\ lpLoc.wire = Json(CatalogDocument([kind |-> "list", items |-> PageItems(1, 0, 2)],
                                         Pagination(J_true, Num(0))))
    /\ lpLoc.offset = 2

\* A first page with count 2.0, which is no integer: the loop goes on with
\* the number of items.
C30_FloatCountReached ==
    /\ Len(lpRequests) = 1
    /\ lpPc = "loop"
    /\ lpLoc.wire = Json(CatalogDocument([kind |-> "list", items |-> PageItems(1, 1, 1)],
                                         Pagination(J_true, Float(2))))
    /\ lpLoc.offset = 1


\* A first page with count -1: the loop goes on with the number of items.
C30_NegativeCountReached ==
    /\ Len(lpRequests) = 1
    /\ lpPc = "loop"
    /\ lpLoc.wire = Json(CatalogDocument([kind |-> "list", items |-> PageItems(1, 0, 1)],
                                         Pagination(J_true, Num(-1))))
    /\ lpLoc.offset = 1

=============================================================================
